---- MODULE Spec2Model ----
(***************************************************************************)
(* FloatChat-Minimal: the intent classifier and query enhancer of          *)
(* agent_adk.py, the search executor and ranker of web_search_tool.py and  *)
(* the /search handlers of api.py and api_adk.py.                          *)
(*                                                                         *)
(* A Python string that the code computes on (a user text, a URL, a        *)
(* domain, a date) is a sequence of one-character strings, so that         *)
(* lower(), substring search, concatenation and URL parsing are computed   *)
(* character by character.  A string literal of the source is written as   *)
(* a TLA+ string and spelled out by Chars where its characters are read.   *)
(* Strings the code only compares for equality (intent names, time         *)
(* ranges, exception names) stay TLA+ strings.                             *)
(***************************************************************************)
EXTENDS Integers, Sequences, FiniteSets, TLC

VARIABLES
  intent_patterns,      \* FloatChatMinimal.intent_patterns (ordered dict)
  enhanced_queries,     \* FloatChatMinimal.enhanced_queries (ordered dict)
  priority_domains,     \* WebSearchTool.priority_domains
  disallowed_patterns,  \* WebSearchTool.disallowed_patterns
  pc,                   \* "idle": no call in progress; "done": a call has returned
  call,                 \* the call or request being served, with its arguments
  ret,                  \* what the call returned or raised
  backend_log,          \* the requests.get calls made for the current request, each
                        \* with its params and the backend's answer
  remembered,           \* at most one earlier classify_intent call with its result (observer)
  inflight              \* the requests being served side by side, each with the
                        \* results of the steps it has taken

vars == <<intent_patterns, enhanced_queries, priority_domains, disallowed_patterns,
          pc, call, ret, backend_log, remembered, inflight>>

tables == <<intent_patterns, enhanced_queries, priority_domains, disallowed_patterns>>

-----------------------------------------------------------------------------
(* Bounds of the model *)

\* a user text is the concatenation of at most MaxFrags fragments
MaxFrags == 2

\* the backend returns at most MaxHits hits
MaxHits == 3

\* the ranker is handed at most MaxResults results
MaxResults == 3

\* the longest list of results handed to the ranker in an order other than
\* that of the backend's answer
MaxShuffled == 2

\* at most MaxRequests requests are served side by side
MaxRequests == 2

\* the backend returns at most MaxToolHits hits to a direct call of the tool
MaxToolHits == 2

-----------------------------------------------------------------------------
(* Python values *)

\* Python's None where a str may stand (Optional[str]): no string of characters
\* equals it
None == <<"<None>">>

\* Python's None where a list of str may stand (Optional[List[str]])
NoList == <<None>>

\* bool(s) of an Optional[str]
Truthy(s) == s # None /\ s # <<>>

\* the empty str
EmptyStr == <<>>

UpperCase == <<"A","B","C","D","E","F","G","H","I","J","K","L","M",
               "N","O","P","Q","R","S","T","U","V","W","X","Y","Z">>

LowerCase == <<"a","b","c","d","e","f","g","h","i","j","k","l","m",
               "n","o","p","q","r","s","t","u","v","w","x","y","z">>

\* the characters of the string literals of the source and of the inputs
Spelling ==
  ("what is argo" :>
     <<"w","h","a","t"," ","i","s"," ","a","r","g","o">>) @@
  ("how does argo work" :>
     <<"h","o","w"," ","d","o","e","s"," ","a","r","g","o"," ","w","o","r","k">>) @@
  ("variables measured by argo" :>
     <<"v","a","r","i","a","b","l","e","s"," ","m","e","a","s","u","r","e","d"," ","b",
       "y"," ","a","r","g","o">>) @@
  ("argo program" :>
     <<"a","r","g","o"," ","p","r","o","g","r","a","m">>) @@
  ("argo floats" :>
     <<"a","r","g","o"," ","f","l","o","a","t","s">>) @@
  ("argo network" :>
     <<"a","r","g","o"," ","n","e","t","w","o","r","k">>) @@
  ("indian ocean argo" :>
     <<"i","n","d","i","a","n"," ","o","c","e","a","n"," ","a","r","g","o">>) @@
  ("status of argo floats in arabian sea" :>
     <<"s","t","a","t","u","s"," ","o","f"," ","a","r","g","o"," ","f","l","o","a","t",
       "s"," ","i","n"," ","a","r","a","b","i","a","n"," ","s","e","a">>) @@
  ("bay of bengal floats" :>
     <<"b","a","y"," ","o","f"," ","b","e","n","g","a","l"," ","f","l","o","a","t","s">>) @@
  ("bay of bengal" :>
     <<"b","a","y"," ","o","f"," ","b","e","n","g","a","l">>) @@
  ("bengal salinity" :>
     <<"b","e","n","g","a","l"," ","s","a","l","i","n","i","t","y">>) @@
  ("salinity level" :>
     <<"s","a","l","i","n","i","t","y"," ","l","e","v","e","l">>) @@
  ("argo india" :>
     <<"a","r","g","o"," ","i","n","d","i","a">>) @@
  ("incois argo" :>
     <<"i","n","c","o","i","s"," ","a","r","g","o">>) @@
  ("indian ocean status" :>
     <<"i","n","d","i","a","n"," ","o","c","e","a","n"," ","s","t","a","t","u","s">>) @@
  ("where to download argo data" :>
     <<"w","h","e","r","e"," ","t","o"," ","d","o","w","n","l","o","a","d"," ","a","r",
       "g","o"," ","d","a","t","a">>) @@
  ("get argo profiles" :>
     <<"g","e","t"," ","a","r","g","o"," ","p","r","o","f","i","l","e","s">>) @@
  ("how to access argo netcdf" :>
     <<"h","o","w"," ","t","o"," ","a","c","c","e","s","s"," ","a","r","g","o"," ","n",
       "e","t","c","d","f">>) @@
  ("argo data download" :>
     <<"a","r","g","o"," ","d","a","t","a"," ","d","o","w","n","l","o","a","d">>) @@
  ("gdac" :>
     <<"g","d","a","c">>) @@
  ("argo ftp" :>
     <<"a","r","g","o"," ","f","t","p">>) @@
  ("nearest argo floats to" :>
     <<"n","e","a","r","e","s","t"," ","a","r","g","o"," ","f","l","o","a","t","s"," ",
       "t","o">>) @@
  ("floats near" :>
     <<"f","l","o","a","t","s"," ","n","e","a","r">>) @@
  ("closest argo to coordinates" :>
     <<"c","l","o","s","e","s","t"," ","a","r","g","o"," ","t","o"," ","c","o","o","r",
       "d","i","n","a","t","e","s">>) @@
  ("argo map" :>
     <<"a","r","g","o"," ","m","a","p">>) @@
  ("find argo floats" :>
     <<"f","i","n","d"," ","a","r","g","o"," ","f","l","o","a","t","s">>) @@
  ("Argo program overview what variables measured temperature salinity pressure ocean profiling floats how it works" :>
     <<"A","r","g","o"," ","p","r","o","g","r","a","m"," ","o","v","e","r","v","i","e",
       "w"," ","w","h","a","t"," ","v","a","r","i","a","b","l","e","s"," ","m","e","a",
       "s","u","r","e","d"," ","t","e","m","p","e","r","a","t","u","r","e"," ","s","a",
       "l","i","n","i","t","y"," ","p","r","e","s","s","u","r","e"," ","o","c","e","a",
       "n"," ","p","r","o","f","i","l","i","n","g"," ","f","l","o","a","t","s"," ","h",
       "o","w"," ","i","t"," ","w","o","r","k","s">>) @@
  ("Indian Ocean Argo floats status current number active INCOIS Arabian Sea Bay Bengal distribution" :>
     <<"I","n","d","i","a","n"," ","O","c","e","a","n"," ","A","r","g","o"," ","f","l",
       "o","a","t","s"," ","s","t","a","t","u","s"," ","c","u","r","r","e","n","t"," ",
       "n","u","m","b","e","r"," ","a","c","t","i","v","e"," ","I","N","C","O","I","S",
       " ","A","r","a","b","i","a","n"," ","S","e","a"," ","B","a","y"," ","B","e","n",
       "g","a","l"," ","d","i","s","t","r","i","b","u","t","i","o","n">>) @@
  ("Argo data download access GDAC global data assembly centers netCDF files instructions how to" :>
     <<"A","r","g","o"," ","d","a","t","a"," ","d","o","w","n","l","o","a","d"," ","a",
       "c","c","e","s","s"," ","G","D","A","C"," ","g","l","o","b","a","l"," ","d","a",
       "t","a"," ","a","s","s","e","m","b","l","y"," ","c","e","n","t","e","r","s"," ",
       "n","e","t","C","D","F"," ","f","i","l","e","s"," ","i","n","s","t","r","u","c",
       "t","i","o","n","s"," ","h","o","w"," ","t","o">>) @@
  ("Argo float interactive map finder location coordinates nearest search tools ocean-ops" :>
     <<"A","r","g","o"," ","f","l","o","a","t"," ","i","n","t","e","r","a","c","t","i",
       "v","e"," ","m","a","p"," ","f","i","n","d","e","r"," ","l","o","c","a","t","i",
       "o","n"," ","c","o","o","r","d","i","n","a","t","e","s"," ","n","e","a","r","e",
       "s","t"," ","s","e","a","r","c","h"," ","t","o","o","l","s"," ","o","c","e","a",
       "n","-","o","p","s">>) @@
  (" " :>
     <<" ">>) @@
  ("What is ARGO" :>
     <<"W","h","a","t"," ","i","s"," ","A","R","G","O">>) @@
  ("Bay of Bengal floats near" :>
     <<"B","a","y"," ","o","f"," ","B","e","n","g","a","l"," ","f","l","o","a","t","s",
       " ","n","e","a","r">>) @@
  ("GDAC" :>
     <<"G","D","A","C">>) @@
  (" map" :>
     <<" ","m","a","p">>) @@
  ("zzz_no_match_zzz" :>
     <<"z","z","z","_","n","o","_","m","a","t","c","h","_","z","z","z">>) @@
  ("argo" :>
     <<"a","r","g","o">>) @@
  ("incois.gov.in" :>
     <<"i","n","c","o","i","s",".","g","o","v",".","i","n">>) @@
  ("argo.ucsd.edu" :>
     <<"a","r","g","o",".","u","c","s","d",".","e","d","u">>) @@
  ("doi.org" :>
     <<"d","o","i",".","o","r","g">>) @@
  ("www.ocean-ops.org" :>
     <<"w","w","w",".","o","c","e","a","n","-","o","p","s",".","o","r","g">>) @@
  ("www.usgodae.org" :>
     <<"w","w","w",".","u","s","g","o","d","a","e",".","o","r","g">>) @@
  ("www.seanoe.org" :>
     <<"w","w","w",".","s","e","a","n","o","e",".","o","r","g">>) @@
  ("www.ncei.noaa.gov" :>
     <<"w","w","w",".","n","c","e","i",".","n","o","a","a",".","g","o","v">>) @@
  ("www.jcommops.org" :>
     <<"w","w","w",".","j","c","o","m","m","o","p","s",".","o","r","g">>) @@
  ("www.euro-argo.eu" :>
     <<"w","w","w",".","e","u","r","o","-","a","r","g","o",".","e","u">>) @@
  ("www.ifremer.fr" :>
     <<"w","w","w",".","i","f","r","e","m","e","r",".","f","r">>) @@
  ("facebook.com" :>
     <<"f","a","c","e","b","o","o","k",".","c","o","m">>) @@
  ("twitter.com" :>
     <<"t","w","i","t","t","e","r",".","c","o","m">>) @@
  ("instagram.com" :>
     <<"i","n","s","t","a","g","r","a","m",".","c","o","m">>) @@
  ("contentfarm" :>
     <<"c","o","n","t","e","n","t","f","a","r","m">>) @@
  ("ai-written" :>
     <<"a","i","-","w","r","i","t","t","e","n">>) @@
  ("generated-content" :>
     <<"g","e","n","e","r","a","t","e","d","-","c","o","n","t","e","n","t">>) @@
  ("www." :>
     <<"w","w","w",".">>) @@
  ("//" :>
     <<"/","/">>) @@
  ("2024" :>
     <<"2","0","2","4">>) @@
  ("2025" :>
     <<"2","0","2","5">>) @@
  ("2023" :>
     <<"2","0","2","3">>) @@
  ("site:" :>
     <<"s","i","t","e",":">>) @@
  (" OR " :>
     <<" ","O","R"," ">>) @@
  (" (" :>
     <<" ","(">>) @@
  (")" :>
     <<")">>) @@
  ("https://incois.gov.in/argo" :>
     <<"h","t","t","p","s",":","/","/","i","n","c","o","i","s",".","g","o","v",".","i",
       "n","/","a","r","g","o">>) @@
  ("https://argo.ucsd.edu/" :>
     <<"h","t","t","p","s",":","/","/","a","r","g","o",".","u","c","s","d",".","e","d",
       "u","/">>) @@
  ("https://www.Facebook.com/argo" :>
     <<"h","t","t","p","s",":","/","/","w","w","w",".","F","a","c","e","b","o","o","k",
       ".","c","o","m","/","a","r","g","o">>) @@
  ("https://unknown.example/facebook.com" :>
     <<"h","t","t","p","s",":","/","/","u","n","k","n","o","w","n",".","e","x","a","m",
       "p","l","e","/","f","a","c","e","b","o","o","k",".","c","o","m">>) @@
  ("unknown.example" :>
     <<"u","n","k","n","o","w","n",".","e","x","a","m","p","l","e">>) @@
  ("euro-argo.eu" :>
     <<"e","u","r","o","-","a","r","g","o",".","e","u">>) @@
  ("2025-03-01" :>
     <<"2","0","2","5","-","0","3","-","0","1">>) @@
  ("2026-01-15" :>
     <<"2","0","2","6","-","0","1","-","1","5">>) @@
  ("argo data" :>
     <<"a","r","g","o"," ","d","a","t","a">>) @@
  ("Argo at INCOIS" :>
     <<"A","r","g","o"," ","a","t"," ","I","N","C","O","I","S">>) @@
  ("About Argo" :>
     <<"A","b","o","u","t"," ","A","r","g","o">>) @@
  ("Argo on Facebook" :>
     <<"A","r","g","o"," ","o","n"," ","F","a","c","e","b","o","o","k">>) @@
  ("Argo shared" :>
     <<"A","r","g","o"," ","s","h","a","r","e","d">>) @@
  ("floats of India" :>
     <<"f","l","o","a","t","s"," ","o","f"," ","I","n","d","i","a">>) @@
  ("the programme" :>
     <<"t","h","e"," ","p","r","o","g","r","a","m","m","e">>) @@
  ("a page" :>
     <<"a"," ","p","a","g","e">>) @@
  ("a post" :>
     <<"a"," ","p","o","s","t">>) @@
  ("ocean-ops.org" :>
     <<"o","c","e","a","n","-","o","p","s",".","o","r","g">>) @@
  ("argo " :>
     <<"a","r","g","o"," ">>) @@
  ("ndia" :>
     <<"n","d","i","a">>) @@
  ("https://incois.gov.in:443/argo" :>
     <<"h","t","t","p","s",":","/","/","i","n","c","o","i","s",".","g","o","v",".","i",
       "n",":","4","4","3","/","a","r","g","o">>) @@
  ("https://www.ocean-ops.org/board" :>
     <<"h","t","t","p","s",":","/","/","w","w","w",".","o","c","e","a","n","-","o","p",
       "s",".","o","r","g","/","b","o","a","r","d">>) @@
  ("https://unknown.example/a" :>
     <<"h","t","t","p","s",":","/","/","u","n","k","n","o","w","n",".","e","x","a","m",
       "p","l","e","/","a">>) @@
  ("https://unknown.example/b" :>
     <<"h","t","t","p","s",":","/","/","u","n","k","n","o","w","n",".","e","x","a","m",
       "p","l","e","/","b">>) @@
  ("https://unknown.example/c" :>
     <<"h","t","t","p","s",":","/","/","u","n","k","n","o","w","n",".","e","x","a","m",
       "p","l","e","/","c">>) @@
  ("2024-11-05" :>
     <<"2","0","2","4","-","1","1","-","0","5">>) @@
  ("2023-01-01" :>
     <<"2","0","2","3","-","0","1","-","0","1">>) @@
  ("ref-2025x" :>
     <<"r","e","f","-","2","0","2","5","x">>) @@
  ("incois.gov.in:443" :>
     <<"i","n","c","o","i","s",".","g","o","v",".","i","n",":","4","4","3">>) @@
  ("@" :>
     <<"@">>) @@
  (":" :>
     <<":">>) @@
  ("https://doi.org/a" :>
     <<"h","t","t","p","s",":","/","/","d","o","i",".","o","r","g","/","a">>) @@
  ("https://doi.org/b" :>
     <<"h","t","t","p","s",":","/","/","d","o","i",".","o","r","g","/","b">>) @@
  ("argo data (site:argo.ucsd.edu OR site:euro-argo.eu)" :>
     <<"a","r","g","o"," ","d","a","t","a"," ","(","s","i","t","e",":","a","r","g","o",
       ".","u","c","s","d",".","e","d","u"," ","O","R"," ","s","i","t","e",":","e","u",
       "r","o","-","a","r","g","o",".","e","u",")">>) @@
  (" OR site:" :>
     <<" ","O","R"," ","s","i","t","e",":">>)

Chars(s) == Spelling[s]

\* LATIN SMALL LETTER DOTLESS I, a character outside ASCII, named by its code
\* point; str.lower() leaves it as it is
DotlessI == "U+0131"

\* the lower-case letter of each ASCII upper-case letter
ToLower == [c \in {UpperCase[i] : i \in 1..Len(UpperCase)} |->
              LowerCase[CHOOSE i \in 1..Len(UpperCase) : UpperCase[i] = c]]

\* str.lower() of one character
LowerChar(c) == IF c \in DOMAIN ToLower THEN ToLower[c] ELSE c

\* a text taken as it is
lower_Identity(s) == s

\* str.lower()
lower(s) == [i \in 1..Len(s) |-> LowerChar(s[i])]

\* s.startswith(p)
startswith(s, p) == Len(p) <= Len(s) /\ SubSeq(s, 1, Len(p)) = p

\* Python's `p in s` for strings
contains(s, p) ==
  \/ p = <<>>
  \/ \E i \in 1..(Len(s) - Len(p) + 1) :
       s[i] = p[1] /\ SubSeq(s, i, i + Len(p) - 1) = p

\* re.search(pattern, text) is not None.  Every pattern of intent_patterns is a
\* literal (letters and spaces, no regex metacharacter), so the search is the
\* search of a substring.
re_search(pattern, text) == contains(text, Chars(pattern))

-----------------------------------------------------------------------------
(* agent_adk.py: FloatChatMinimal.__init__ *)

InitialIntentPatterns ==
  <<
     [intent |-> "program_overview", patterns |-> <<
        "what is argo",
        "how does argo work",
        "variables measured by argo",
        "argo program",
        "argo floats",
        "argo network" >>],
     [intent |-> "indian_ocean_status", patterns |-> <<
        "indian ocean argo",
        "status of argo floats in arabian sea",
        "bay of bengal floats",
        "bay of bengal",
        "bengal salinity",
        "salinity level",
        "argo india",
        "incois argo",
        "indian ocean status" >>],
     [intent |-> "find_data_access", patterns |-> <<
        "where to download argo data",
        "get argo profiles",
        "how to access argo netcdf",
        "argo data download",
        "gdac",
        "argo ftp" >>],
     [intent |-> "nearest_floats_concept", patterns |-> <<
        "nearest argo floats to",
        "floats near",
        "closest argo to coordinates",
        "argo map",
        "find argo floats" >>]
  >>

InitialEnhancedQueries ==
  <<
     [intent |-> "program_overview", base_query |->
        "Argo program overview what variables measured temperature salinity pressure ocean profiling floats how it works"],
     [intent |-> "indian_ocean_status", base_query |->
        "Indian Ocean Argo floats status current number active INCOIS Arabian Sea Bay Bengal distribution"],
     [intent |-> "find_data_access", base_query |->
        "Argo data download access GDAC global data assembly centers netCDF files instructions how to"],
     [intent |-> "nearest_floats_concept", base_query |->
        "Argo float interactive map finder location coordinates nearest search tools ocean-ops"]
  >>

\* the keys of intent_patterns, in declaration order
DeclaredIntents == {InitialIntentPatterns[i].intent : i \in 1..Len(InitialIntentPatterns)}

-----------------------------------------------------------------------------
(* agent_adk.py: FloatChatMinimal.classify_intent *)

\* for pattern in patterns: if re.search(pattern, user_text_lower)
RECURSIVE AnyPatternMatches(_, _, _)
AnyPatternMatches(patterns, j, user_text_lower) ==
  IF j > Len(patterns) THEN FALSE
  ELSE IF re_search(patterns[j], user_text_lower) THEN TRUE
  ELSE AnyPatternMatches(patterns, j + 1, user_text_lower)

\* a fallback that names the last declared intent instead of the first
DefaultIntent_Last == "nearest_floats_concept"

\* the value returned when no pattern of any intent matches
DefaultIntent == "program_overview"

\* a scan that does not return at the first match: the last matching intent wins
RECURSIVE ScanIntents_LastWins(_, _, _)
ScanIntents_LastWins(table, i, user_text_lower) ==
  IF i > Len(table) THEN DefaultIntent
  ELSE LET later == ScanIntents_LastWins(table, i + 1, user_text_lower)
       IN IF later # DefaultIntent \/ ~AnyPatternMatches(table[i].patterns, 1, user_text_lower)
          THEN later
          ELSE table[i].intent

\* for intent, patterns in self.intent_patterns.items(): ... return intent
RECURSIVE ScanIntents(_, _, _)
ScanIntents(table, i, user_text_lower) ==
  IF i > Len(table) THEN DefaultIntent
  ELSE IF AnyPatternMatches(table[i].patterns, 1, user_text_lower) THEN table[i].intent
  ELSE ScanIntents(table, i + 1, user_text_lower)

classify_intent(user_text) ==
  [raised |-> FALSE,
   value  |-> ScanIntents(intent_patterns, 1, lower(user_text))]

-----------------------------------------------------------------------------
(* agent_adk.py: FloatChatMinimal.enhance_query *)

\* dict.get(key, default) on an ordered dict of [intent, base_query] entries
dict_get(d, key, default) ==
  IF \E i \in 1..Len(d) : d[i].intent = key
  THEN Chars(d[CHOOSE i \in 1..Len(d) : d[i].intent = key].base_query)
  ELSE default

\* d[key]; the caller checks HasKey first (a KeyError otherwise)
HasKey(d, key) == \E i \in 1..Len(d) : d[i].intent = key

\* self.enhanced_queries[intent] in place of .get(intent, default): a KeyError
\* for an intent that has no entry
enhance_query_Subscript(user_text, intent) ==
  IF ~HasKey(enhanced_queries, intent)
  THEN [raised |-> TRUE, value |-> None]
  ELSE [raised |-> FALSE,
        value  |-> user_text \o Chars(" ") \o dict_get(enhanced_queries, intent, None)]

enhance_query(user_text, intent) ==
  IF ~HasKey(enhanced_queries, "program_overview")
  THEN [raised |-> TRUE, value |-> None]      \* KeyError from the default argument
  ELSE LET base_query == dict_get(enhanced_queries, intent,
                                  dict_get(enhanced_queries, "program_overview", None))
       IN [raised |-> FALSE,
           value  |-> user_text \o Chars(" ") \o base_query]

-----------------------------------------------------------------------------
(* web_search_tool.py: WebSearchTool.__init__ *)

InitialPriorityDomains ==
  <<"incois.gov.in", "argo.ucsd.edu", "doi.org", "www.ocean-ops.org",
    "www.usgodae.org", "www.seanoe.org", "www.ncei.noaa.gov", "www.jcommops.org",
    "www.euro-argo.eu", "www.ifremer.fr">>

InitialDisallowedPatterns ==
  <<"facebook.com", "twitter.com", "instagram.com",
    "contentfarm", "ai-written", "generated-content">>

-----------------------------------------------------------------------------
(* web_search_tool.py: WebSearchTool._extract_domain *)

Letters == {UpperCase[i] : i \in 1..Len(UpperCase)} \cup {LowerCase[i] : i \in 1..Len(LowerCase)}

Digits == {"0", "1", "2", "3", "4", "5", "6", "7", "8", "9"}

\* urllib.parse.scheme_chars
SchemeChars == Letters \cup Digits \cup {"+", "-", "."}

\* the first position of s, from position i on, that holds a character of cs;
\* 0 when there is none
RECURSIVE FindFrom(_, _, _)
FindFrom(s, cs, i) ==
  IF i > Len(s) THEN 0
  ELSE IF s[i] \in cs THEN i
  ELSE FindFrom(s, cs, i + 1)

FindAny(s, cs) == FindFrom(s, cs, 1)

\* urlsplit: what follows "scheme:" when the url starts with a scheme
AfterScheme(url) ==
  LET i == FindAny(url, {":"})
  IN IF i > 1 /\ url[1] \in Letters /\ \A k \in 1..(i - 1) : url[k] \in SchemeChars
     THEN SubSeq(url, i + 1, Len(url))
     ELSE url

\* urlparse(url).netloc: after "//", up to the first of "/", "?", "#"
netloc(url) ==
  LET rest == AfterScheme(url)
  IN IF startswith(rest, Chars("//"))
     THEN LET after == SubSeq(rest, 3, Len(rest))
              delim == FindAny(after, {"/", "?", "#"})
          IN IF delim = 0 THEN after ELSE SubSeq(after, 1, delim - 1)
     ELSE EmptyStr

_extract_domain(url) ==
  LET domain == lower(netloc(url))
  IN IF startswith(domain, Chars("www."))
     THEN SubSeq(domain, 5, Len(domain))
     ELSE domain

-----------------------------------------------------------------------------
(* web_search_tool.py: WebSearchTool._is_disallowed_domain *)

\* a filter that also rejects every domain outside the priority list
_is_disallowed_domain_AllowList(domain) ==
  \/ \E k \in 1..Len(disallowed_patterns) :
       contains(lower(domain), Chars(disallowed_patterns[k]))
  \/ \A i \in 1..Len(priority_domains) : Chars(priority_domains[i]) # domain

_is_disallowed_domain(domain) ==
  \E k \in 1..Len(disallowed_patterns) :
    contains(lower(domain), Chars(disallowed_patterns[k]))

-----------------------------------------------------------------------------
(* web_search_tool.py: WebSearchTool._extract_date *)

date_fields == <<"metatags", "article", "webpage", "newsarticle">>

date_keys == <<"published_time", "modified_time", "date", "publishdate">>

\* the last date_key that the item holds; 0 when it holds none
FirstDateKey_LastKey(item) ==
  IF \E k \in 1..Len(date_keys) : date_keys[k] \in DOMAIN item
  THEN CHOOSE k \in 1..Len(date_keys) :
         /\ date_keys[k] \in DOMAIN item
         /\ \A j \in (k + 1)..Len(date_keys) : date_keys[j] \notin DOMAIN item
  ELSE 0

\* the first date_key that the item holds; 0 when it holds none
FirstDateKey(item) ==
  IF \E k \in 1..Len(date_keys) : date_keys[k] \in DOMAIN item
  THEN CHOOSE k \in 1..Len(date_keys) :
         /\ date_keys[k] \in DOMAIN item
         /\ \A j \in 1..(k - 1) : date_keys[j] \notin DOMAIN item
  ELSE 0

\* for field in date_fields: ... return item[date_key]
RECURSIVE ScanDateFields(_, _)
ScanDateFields(meta, f) ==
  IF f > Len(date_fields) THEN None
  ELSE IF /\ date_fields[f] \in DOMAIN meta
          /\ meta[date_fields[f]] # <<>>
          /\ FirstDateKey(meta[date_fields[f]][1]) # 0
       THEN LET item == meta[date_fields[f]][1]
            IN item[date_keys[FirstDateKey(item)]]
       ELSE ScanDateFields(meta, f + 1)

_extract_date(meta) == ScanDateFields(meta, 1)

\* a JSON number where an object is expected
JsonNumber == [json |-> "number"]

\* `date_key in item` raises TypeError when item is a number: the exception
\* the scan raises, "" when it returns
RECURSIVE ScanDateFields_raises(_, _)
ScanDateFields_raises(meta, f) ==
  IF f > Len(date_fields) THEN ""
  ELSE IF date_fields[f] \in DOMAIN meta /\ meta[date_fields[f]] # <<>>
       THEN IF meta[date_fields[f]][1] = JsonNumber THEN "TypeError"
            ELSE IF FirstDateKey(meta[date_fields[f]][1]) # 0 THEN ""
            ELSE ScanDateFields_raises(meta, f + 1)
       ELSE ScanDateFields_raises(meta, f + 1)

_extract_date_raises(meta) == ScanDateFields_raises(meta, 1)

-----------------------------------------------------------------------------
(* web_search_tool.py: WebSearchTool._sort_by_priority *)

\* the 0-based list.index(domain); len(list) when the domain is not in the list
priority_idx_NotFoundFirst(domain) ==
  IF \E i \in 1..Len(priority_domains) : Chars(priority_domains[i]) = domain
  THEN (CHOOSE i \in 1..Len(priority_domains) :
          /\ Chars(priority_domains[i]) = domain
          /\ \A k \in 1..(i - 1) : Chars(priority_domains[k]) # domain) - 1
  ELSE -1

priority_idx(domain) ==
  IF \E i \in 1..Len(priority_domains) : Chars(priority_domains[i]) = domain
  THEN (CHOOSE i \in 1..Len(priority_domains) :
          /\ Chars(priority_domains[i]) = domain
          /\ \A k \in 1..(i - 1) : Chars(priority_domains[k]) # domain) - 1
  ELSE Len(priority_domains)

\* the recency score of a result
recency_score(result) ==
  IF Truthy(result.published) \/ Truthy(result.updated)
  THEN LET date_str == IF Truthy(result.published) THEN result.published
                       ELSE result.updated
       IN IF contains(date_str, Chars("2024")) \/ contains(date_str, Chars("2025"))
          THEN -1
          ELSE IF contains(date_str, Chars("2023")) THEN 0
          ELSE 1
  ELSE 0

priority_score(result) ==
  <<priority_idx(result.source), recency_score(result), result.rank>>

\* a comparison that stops at the recency score
TupleLess_IgnoringRank(a, b) ==
  \/ a[1] < b[1]
  \/ a[1] = b[1] /\ a[2] < b[2]

\* Python's < on tuples of three integers
TupleLess(a, b) ==
  \/ a[1] < b[1]
  \/ a[1] = b[1] /\ a[2] < b[2]
  \/ a[1] = b[1] /\ a[2] = b[2] /\ a[3] < b[3]

\* the pair x = <<key, result>> put into the list `out` of such pairs, sorted by
\* key, after every pair whose key is not greater than its own: sorted() is stable
RECURSIVE SortedInsert(_, _)
SortedInsert(out, x) ==
  IF out = <<>> THEN <<x>>
  ELSE IF TupleLess(x[1], Head(out)[1])
       THEN <<x>> \o out
       ELSE <<Head(out)>> \o SortedInsert(Tail(out), x)

RECURSIVE SortFrom(_, _, _)
SortFrom(keyed, i, out) ==
  IF i > Len(keyed) THEN out
  ELSE SortFrom(keyed, i + 1, SortedInsert(out, keyed[i]))

\* a ranker that renumbers the results it has ordered
_sort_by_priority_Renumbering(results) ==
  LET keyed  == [i \in 1..Len(results) |-> <<priority_score(results[i]), results[i]>>]
      sorted == SortFrom(keyed, 1, <<>>)
  IN [i \in 1..Len(sorted) |-> [sorted[i][2] EXCEPT !.rank = i]]

\* sorted(results, key=priority_score): the key of every result is computed
\* once, the results are ordered by their keys
_sort_by_priority(results) ==
  LET keyed  == [i \in 1..Len(results) |-> <<priority_score(results[i]), results[i]>>]
      sorted == SortFrom(keyed, 1, <<>>)
  IN [i \in 1..Len(sorted) |-> sorted[i][2]]

-----------------------------------------------------------------------------
(* web_search_tool.py: WebSearchTool.search *)

Min(a, b) == IF a <= b THEN a ELSE b
Max(a, b) == IF a >= b THEN a ELSE b

\* the clauses joined from the last domain to the first
RECURSIVE JoinSites_Reversed(_, _)
JoinSites_Reversed(site_filter, i) ==
  IF i > Len(site_filter) THEN EmptyStr
  ELSE JoinSites_Reversed(site_filter, i + 1)
         \o (IF i < Len(site_filter) THEN Chars(" OR ") ELSE EmptyStr)
         \o Chars("site:") \o site_filter[i]

\* " OR ".join([f"site:{domain}" for domain in site_filter])
RECURSIVE JoinSites(_, _)
JoinSites(site_filter, i) ==
  IF i > Len(site_filter) THEN EmptyStr
  ELSE (IF i > 1 THEN Chars(" OR ") ELSE EmptyStr)
         \o Chars("site:") \o site_filter[i] \o JoinSites(site_filter, i + 1)

\* params whose time filter is applied to every time range
BuildParams_RestrictAny(query, site_filter, time_range, top_k) ==
  LET q == IF site_filter # NoList /\ site_filter # <<>>
           THEN query \o Chars(" (") \o JoinSites(site_filter, 1) \o Chars(")")
           ELSE query
      date_restrict == CASE time_range = "week"  -> "d7"
                         [] time_range = "month" -> "m1"
                         [] time_range = "year"  -> "y1"
                         [] OTHER                -> "y1"
  IN [q |-> q, num |-> Min(top_k, 10), safe |-> "active",
      dateRestrict |-> date_restrict]

\* the params of the request; key and cx, the fixed credentials, are left out
BuildParams(query, site_filter, time_range, top_k) ==
  LET q == IF site_filter # NoList /\ site_filter # <<>>
           THEN query \o Chars(" (") \o JoinSites(site_filter, 1) \o Chars(")")
           ELSE query
      date_restrict == CASE time_range = "week"  -> "d7"
                         [] time_range = "month" -> "m1"
                         [] time_range = "year"  -> "y1"
                         [] OTHER                -> "y1"
  IN IF time_range # "any"
     THEN [q |-> q, num |-> Min(top_k, 10), safe |-> "active",
           dateRestrict |-> date_restrict]
     ELSE [q |-> q, num |-> Min(top_k, 10), safe |-> "active"]

\* dict.get(key, default) on a JSON object
item_get(item, key, default) == IF key \in DOMAIN item THEN item[key] ELSE default

\* the SearchResult built from the hit at 0-based position idx, whose url and
\* domain were extracted already
ParseItem(item, idx, url, domain) ==
  [rank      |-> idx + 1,
   title     |-> item_get(item, "title", EmptyStr),
   url       |-> url,
   snippet   |-> item_get(item, "snippet", EmptyStr),
   published |-> IF "pagemap" \in DOMAIN item THEN _extract_date(item.pagemap)
                 ELSE None,
   updated   |-> None,
   source    |-> domain]

\* SearchResult(...) validates its fields: title and snippet are str, and a
\* JSON null is none; the exception the construction raises, "" when none
SearchResult_raises(item) ==
  IF \/ item_get(item, "title", EmptyStr) = None
     \/ item_get(item, "snippet", EmptyStr) = None
  THEN "ValidationError"
  ELSE ""

\* the exception the body of the loop raises for an item that is not
\* skipped: that of SearchResult(...), else that of _extract_date; "" when none
ParseItem_raises(item) ==
  IF SearchResult_raises(item) # "" \/ "pagemap" \notin DOMAIN item
  THEN SearchResult_raises(item)
  ELSE _extract_date_raises(item.pagemap)

\* a loop without the deny-list check: every hit is appended
RECURSIVE ParseItems_NoFilter(_, _, _)
ParseItems_NoFilter(items, idx, results) ==
  IF idx >= Len(items) THEN [raised |-> "", results |-> results]
  ELSE LET item   == items[idx + 1]
           url    == item_get(item, "link", EmptyStr)
           domain == _extract_domain(url)
       IN IF ParseItem_raises(item) # ""
          THEN [raised |-> ParseItem_raises(item), results |-> results]
          ELSE ParseItems_NoFilter(items, idx + 1,
                                   Append(results, ParseItem(item, idx, url, domain)))

\* a loop that numbers the results it keeps: rank is the position among them
RECURSIVE ParseItems_RankAmongKept(_, _, _)
ParseItems_RankAmongKept(items, idx, results) ==
  IF idx >= Len(items) THEN [raised |-> "", results |-> results]
  ELSE LET item   == items[idx + 1]
           url    == item_get(item, "link", EmptyStr)
           domain == _extract_domain(url)
       IN IF _is_disallowed_domain(domain)
          THEN ParseItems_RankAmongKept(items, idx + 1, results)
          ELSE IF ParseItem_raises(item) # ""
          THEN [raised |-> ParseItem_raises(item), results |-> results]
          ELSE ParseItems_RankAmongKept(items, idx + 1,
                 Append(results, ParseItem(item, Len(results), url, domain)))

\* a loop with a try around each item: a hit that raises is left out and the
\* loop goes on
RECURSIVE ParseItems_SkipRaising(_, _, _)
ParseItems_SkipRaising(items, idx, results) ==
  IF idx >= Len(items) THEN [raised |-> "", results |-> results]
  ELSE LET item   == items[idx + 1]
           url    == item_get(item, "link", EmptyStr)
           domain == _extract_domain(url)
       IN IF _is_disallowed_domain(domain) \/ ParseItem_raises(item) # ""
          THEN ParseItems_SkipRaising(items, idx + 1, results)
          ELSE ParseItems_SkipRaising(items, idx + 1,
                 Append(results, ParseItem(item, idx, url, domain)))

\* for idx, item in enumerate(items): ... results.append(result); the exception
\* that ends the loop ("" when it runs to its end) and the results appended
RECURSIVE ParseItems(_, _, _)
ParseItems(items, idx, results) ==
  IF idx >= Len(items) THEN [raised |-> "", results |-> results]
  ELSE LET item   == items[idx + 1]
           url    == item_get(item, "link", EmptyStr)
           domain == _extract_domain(url)
       IN IF _is_disallowed_domain(domain)
          THEN ParseItems(items, idx + 1, results)
          ELSE IF ParseItem_raises(item) # ""
          THEN [raised |-> ParseItem_raises(item), results |-> results]
          ELSE ParseItems(items, idx + 1,
                          Append(results, ParseItem(item, idx, url, domain)))

\* the whole list: the cap is left to the backend's num parameter
SliceTo_Uncapped(results, top_k) == results

\* results[:top_k]
SliceTo(results, top_k) ==
  IF top_k >= 0 THEN SubSeq(results, 1, Min(top_k, Len(results)))
  ELSE SubSeq(results, 1, Max(Len(results) + top_k, 0))

\* the exceptions of requests that derive from requests.RequestException
RequestExceptions == {"ConnectionError", "Timeout", "HTTPError"}

\* what follows the loop, whose outcome is `parsed`: an exception of the loop
\* leaves the try block, else the results are sorted and cut to top_k
search_finish(parsed, top_k) ==
  IF parsed.raised # ""
  THEN [raised |-> parsed.raised, results |-> <<>>]
  ELSE [raised |-> "", results |-> SliceTo(_sort_by_priority(parsed.results), top_k)]

\* the body of the try block: the exception it raises ("" when it returns) and
\* the results it returns
search_try(query, site_filter, time_range, top_k, answer) ==
  CASE answer.kind \in {"ConnectionError", "Timeout"} ->     \* requests.get raises
         [raised |-> answer.kind, results |-> <<>>]
    [] answer.kind = "HTTPError" ->                          \* raise_for_status()
         [raised |-> "HTTPError", results |-> <<>>]
    [] answer.kind = "JSONDecodeError" ->                    \* response.json()
         [raised |-> "JSONDecodeError", results |-> <<>>]
    [] answer.kind = "not_an_object" ->                      \* data.get on a JSON array
         [raised |-> "AttributeError", results |-> <<>>]
    [] OTHER ->
         search_finish(ParseItems(answer.items, 0, <<>>), top_k)

\* a search that catches requests.RequestException only
WebSearchTool_search_NoCatchAll(query, site_filter, time_range, top_k, answer) ==
  LET body == search_try(query, site_filter, time_range, top_k, answer)
      log  == <<[params |-> BuildParams(query, site_filter, time_range, top_k),
                 answer |-> answer]>>
  IN IF body.raised \in RequestExceptions
     THEN [raised |-> "", results |-> <<>>, log |-> log]
     ELSE [raised |-> body.raised, results |-> body.results, log |-> log]

\* a search that repeats a request that failed with a RequestException
WebSearchTool_search_RetryOnce(query, site_filter, time_range, top_k, answer) ==
  LET body == search_try(query, site_filter, time_range, top_k, answer)
      log  == <<[params |-> BuildParams(query, site_filter, time_range, top_k),
                 answer |-> answer]>>
  IN IF body.raised \in RequestExceptions
     THEN [raised |-> "", results |-> <<>>, log |-> log \o log]
     ELSE IF body.raised # ""
     THEN [raised |-> "", results |-> <<>>, log |-> log]
     ELSE [raised |-> "", results |-> body.results, log |-> log]

\* WebSearchTool.search: one requests.get, whose answer is `answer`; the
\* exception that leaves the method ("" when it returns), the results of the
\* SearchResponse and the requests made
WebSearchTool_search(query, site_filter, time_range, top_k, answer) ==
  LET body == search_try(query, site_filter, time_range, top_k, answer)
      log  == <<[params |-> BuildParams(query, site_filter, time_range, top_k),
                 answer |-> answer]>>
  IN IF body.raised \in RequestExceptions
     THEN [raised |-> "", results |-> <<>>, log |-> log]   \* except RequestException
     ELSE IF body.raised # ""
     THEN [raised |-> "", results |-> <<>>, log |-> log]   \* except Exception
     ELSE [raised |-> "", results |-> body.results, log |-> log]

-----------------------------------------------------------------------------
(* api.py: POST /search *)

\* the bounds of top_k that the handler accepts
TopKMin == 1
TopKMax == 10

TimeRanges == {"any", "year", "month", "week"}

\* SearchResult(rank=result.rank, ...): the fields copied one by one
CopyResult(result) ==
  [rank      |-> result.rank,
   title     |-> result.title,
   url       |-> result.url,
   snippet   |-> result.snippet,
   published |-> result.published,
   updated   |-> result.updated,
   source    |-> result.source]

\* the handler of api.py: the HTTP response and the backend requests made;
\* `answer` is what the backend answers if it is asked
search(request, answer) ==
  IF request.top_k < TopKMin \/ request.top_k > TopKMax
  THEN [ret |-> [status |-> 400, detail |-> "top_k must be between 1 and 10"],
        log |-> <<>>]
  ELSE IF request.time_range \notin TimeRanges
  THEN [ret |-> [status |-> 400, detail |-> "Invalid time_range"], log |-> <<>>]
  ELSE LET r == WebSearchTool_search(request.query, request.site_filter,
                                     request.time_range, request.top_k, answer)
       IN IF r.raised # ""                                   \* except Exception
          THEN [ret |-> [status |-> 500, detail |-> "Search failed"], log |-> r.log]
          ELSE [ret |-> [status  |-> 200,
                         results |-> [i \in 1..Len(r.results) |->
                                        CopyResult(r.results[i])]],
                log |-> r.log]

-----------------------------------------------------------------------------
(* api_adk.py: POST /chat and POST /search *)

\* the canned text chosen for the intent, named and not spelled out
response_text(intent) ==
  CASE intent = "program_overview"       -> "The Argo program is a global ocean observation system ..."
    [] intent = "indian_ocean_status"    -> "**Indian Ocean Argo Status & Salinity Data:** ..."
    [] intent = "find_data_access"       -> "**Accessing Argo Data:** ..."
    [] intent = "nearest_floats_concept" -> "**Finding Argo Floats:** ..."
    [] OTHER                             -> "I understand you're asking about Argo oceanographic data. ..."

\* chat_endpoint: the FloatChatResponse it returns, or the HTTPException it raises
chat_endpoint(query) ==
  LET intent   == classify_intent(query)
      enhanced == enhance_query(query, intent.value)
  IN IF intent.raised \/ enhanced.raised
     THEN [raised |-> TRUE, status |-> 500, error |-> "Internal server error"]
     ELSE [raised |-> FALSE,
           value  |-> [response  |-> response_text(intent.value),
                       intent    |-> intent.value,
                       sources   |-> <<"argo.ucsd.edu", "ocean-ops.org">>,
                       timestamp |-> "datetime.now().isoformat()"]]

\* search_endpoint: the response of POST /search; it makes no backend request
search_endpoint(request) ==
  LET chat == chat_endpoint(request.query)
  IN IF chat.raised
     THEN [ret |-> [status |-> 500, error |-> "Search failed", details |-> "HTTPException"],
           log |-> <<>>]
     ELSE IF "sources_used" \notin DOMAIN chat.value       \* response.sources_used
     THEN [ret |-> [status |-> 500, error |-> "Search failed", details |-> "AttributeError"],
           log |-> <<>>]
     ELSE [ret |-> [status    |-> 200,
                    query     |-> request.query,
                    results   |-> [i \in 1..Len(chat.value.sources_used) |->
                                     [title   |-> item_get(chat.value.sources_used[i], "title", EmptyStr),
                                      url     |-> item_get(chat.value.sources_used[i], "url", EmptyStr),
                                      source  |-> item_get(chat.value.sources_used[i], "source", EmptyStr),
                                      snippet |-> "From ADK web search results"]],
                    timestamp |-> "datetime.now().isoformat()"],
           log |-> <<>>]

-----------------------------------------------------------------------------
(* Inputs *)

Fragments ==
  <<Chars("What is ARGO"), Chars("Bay of Bengal floats near"), Chars("GDAC"),
    Chars(" map"), Chars("zzz_no_match_zzz"), Chars("argo"),
    Chars("argo ") \o <<DotlessI>> \o Chars("ndia")>>

RECURSIVE TextsOf(_)
TextsOf(n) ==
  IF n = 0 THEN {EmptyStr}
  ELSE LET shorter == TextsOf(n - 1)
       IN shorter \cup {t \o Fragments[k] : t \in shorter, k \in 1..Len(Fragments)}

\* the user texts the calls are made with
Texts == TextsOf(MaxFrags)

\* intent arguments: the declared intents and one unrecognised value
IntentValues == DeclaredIntents \cup {"unknown_intent"}

\* the hits the backend may return for a query
HitPool ==
  {[link    |-> Chars("https://incois.gov.in/argo"),
    title   |-> Chars("Argo at INCOIS"),
    snippet |-> Chars("floats of India"),
    pagemap |-> [metatags |-> <<[published_time |-> Chars("2025-03-01")]>>]],
   [link    |-> Chars("https://argo.ucsd.edu/"),
    title   |-> Chars("About Argo"),
    snippet |-> Chars("the programme")],
   [link    |-> Chars("https://www.Facebook.com/argo"),
    title   |-> Chars("Argo on Facebook"),
    snippet |-> Chars("a page")],
   [link    |-> Chars("https://unknown.example/facebook.com"),
    title   |-> Chars("Argo shared"),
    snippet |-> Chars("a post"),
    pagemap |-> [article |-> <<[date |-> Chars("2026-01-15")]>>]]}

\* the sequences of at most n elements of S
SeqsUpTo(S, n) == UNION {[1..k -> S] : k \in 0..n}

\* what the backend may answer to one request that asks for num hits: a failure
\* of the call, of the status check or of the decoding, a JSON array, or a JSON
\* object with items. The backend holds the hits `held` for the query, in its
\* own order of relevance; it returns the first num of them, as the search API
\* documents, or all of them, as a backend that ignores num does
BackendAnswers(num) ==
  {[kind |-> k] : k \in {"ConnectionError", "Timeout", "HTTPError",
                         "JSONDecodeError", "not_an_object"}}
    \cup {[kind |-> "ok", items |-> held, held |-> held] :
            held \in SeqsUpTo(HitPool, MaxHits)}
    \cup {[kind |-> "ok", items |-> SubSeq(held, 1, Min(num, Len(held))), held |-> held] :
            held \in SeqsUpTo(HitPool, MaxHits)}

SiteFilters == {NoList, <<>>, <<Chars("argo.ucsd.edu"), Chars("euro-argo.eu")>>}

\* the bodies of POST /search: top_k around its accepted range, the time
\* ranges and one that is not recognised
SearchRequests ==
  [query       : {Chars("argo data")},
   site_filter : SiteFilters,
   time_range  : TimeRanges \cup {"decade"},
   top_k       : (TopKMin - 1)..(TopKMax + 1)]

\* the published and updated dates of the results handed to the ranker
ResultDates ==
  {[published |-> None, updated |-> None],
   [published |-> Chars("2025-03-01"), updated |-> None],
   [published |-> None, updated |-> Chars("2026-01-15")]}

ResultSources == {Chars("incois.gov.in"), Chars("argo.ucsd.edu"), Chars("unknown.example")}

\* the ranks of a list of n results: positions in the backend's answer,
\* pairwise distinct (rank=idx + 1), with gaps where a hit was dropped; search
\* hands them over in increasing order, another caller in any order
DistinctRanks(n) ==
  {r \in [1..n -> 1..MaxResults] :
     /\ \A i, j \in 1..n : i # j => r[i] # r[j]
     /\ n <= MaxShuffled \/ \A i \in 1..(n - 1) : r[i] < r[i + 1]}

\* the list of results with the given ranks, sources and dates
ResultList(ranks, sd) ==
  [i \in 1..Len(ranks) |->
     [rank      |-> ranks[i],
      title     |-> EmptyStr,
      url       |-> Chars("//") \o sd[i][1],
      snippet   |-> EmptyStr,
      published |-> sd[i][2].published,
      updated   |-> sd[i][2].updated,
      source    |-> sd[i][1]]]

\* GET /intents of api.py: the intents and the user patterns listed for each
intents_supported ==
  <<[name          |-> "program_overview",
     user_patterns |-> <<"what is argo", "how does argo work",
                         "variables measured by argo">>],
    [name          |-> "indian_ocean_status",
     user_patterns |-> <<"indian ocean argo", "status of argo floats in arabian sea",
                         "bay of bengal floats">>],
    [name          |-> "find_data_access",
     user_patterns |-> <<"where to download argo data", "get argo profiles",
                         "how to access argo netcdf">>],
    [name          |-> "nearest_floats_concept",
     user_patterns |-> <<"nearest argo floats to", "floats near",
                         "closest argo to coordinates">>]>>

\* the hits the backend may return to a direct call of the tool: urls with a
\* port and with a www. host, page maps with and without dates
ToolHitPool ==
  {[link    |-> Chars("https://incois.gov.in:443/argo"),
    title   |-> Chars("Argo at INCOIS"),
    snippet |-> Chars("floats of India")],
   [link    |-> Chars("https://www.ocean-ops.org/board"),
    title   |-> Chars("About Argo"),
    snippet |-> Chars("the programme"),
    pagemap |-> [metatags |-> <<[modified_time  |-> Chars("2024-11-05"),
                                 published_time |-> Chars("2023-01-01")]>>]],
   [link    |-> Chars("https://unknown.example/a"),
    title   |-> Chars("Argo shared"),
    snippet |-> Chars("a post"),
    pagemap |-> [metatags |-> <<[author |-> Chars("a page")],
                                [published_time |-> Chars("2023-01-01")]>>,
                 article  |-> <<[publishdate |-> Chars("2025-03-01"),
                                 date |-> Chars("2026-01-15")]>>]],
   [link    |-> Chars("https://unknown.example/b"),
    title   |-> Chars("Argo shared"),
    snippet |-> Chars("a post"),
    pagemap |-> [webpage     |-> <<>>,
                 newsarticle |-> <<[publishdate |-> Chars("ref-2025x")]>>]],
   [link    |-> Chars("https://unknown.example/c"),
    title   |-> Chars("Argo shared"),
    snippet |-> Chars("a post")],
   [link    |-> Chars("https://argo.ucsd.edu/"),
    title   |-> Chars("About Argo"),
    snippet |-> Chars("the programme"),
    pagemap |-> [cse_image |-> <<[src |-> Chars("a page")]>>]],
   [link    |-> Chars("https://incois.gov.in/argo"),
    title   |-> None,
    snippet |-> Chars("floats of India")],
   [link    |-> Chars("https://doi.org/a"),
    title   |-> Chars("Argo shared"),
    snippet |-> Chars("a post"),
    pagemap |-> [metatags |-> <<JsonNumber>>]],
   [link    |-> Chars("https://doi.org/b"),
    title   |-> Chars("Argo shared"),
    snippet |-> Chars("a post"),
    pagemap |-> [metatags |-> <<[date |-> Chars("2025-03-01")]>>,
                 article  |-> <<JsonNumber>>]],
   [link    |-> Chars("https://www.Facebook.com/argo"),
    title   |-> None,
    snippet |-> Chars("a post")]}

\* the site filters of a direct call: none, empty, one domain, two domains in
\* either order
ToolSiteFilters ==
  {NoList, <<>>, <<Chars("euro-argo.eu")>>,
   <<Chars("argo.ucsd.edu"), Chars("euro-argo.eu")>>,
   <<Chars("euro-argo.eu"), Chars("argo.ucsd.edu")>>}

\* the backend's answers to a direct call of the tool
ToolAnswers ==
  {[kind |-> "ok", items |-> held, held |-> held] :
     held \in SeqsUpTo(ToolHitPool, MaxToolHits)}

\* the texts of the chat requests served side by side: one that matches two
\* intents, one for each of two other intents, and one that matches nothing
ConcurrentTexts ==
  {Chars("Bay of Bengal floats near"), Chars("GDAC"),
   Chars("argo") \o Chars(" map"), Chars("zzz_no_match_zzz")}

\* the search request served side by side with other requests
ConcurrentSearch ==
  [query |-> Chars("argo data"), site_filter |-> NoList, time_range |-> "year", top_k |-> 2]

\* the backend's answers to it: a failure, or no hit or one hit
ConcurrentAnswers ==
  {a \in BackendAnswers(2) : a.kind = "ok" => Len(a.held) <= 1}

\* a slot that serves no request
NoRequest == [pc |-> "new"]

NoCall == [op |-> "none"]
NoRet  == [raised |-> FALSE, value |-> None]

-----------------------------------------------------------------------------
(* State machine *)

Init ==
  /\ intent_patterns = InitialIntentPatterns
  /\ enhanced_queries = InitialEnhancedQueries
  /\ priority_domains = InitialPriorityDomains
  /\ disallowed_patterns = InitialDisallowedPatterns
  /\ pc = "idle"
  /\ call = NoCall
  /\ ret = NoRet
  /\ backend_log = <<>>
  /\ remembered = <<>>
  /\ inflight = [r \in 1..MaxRequests |-> NoRequest]

\* the entry of `intent` moved to the front of the table
MoveToFront(table, intent) ==
  SelectSeq(table, LAMBDA e : e.intent = intent)
    \o SelectSeq(table, LAMBDA e : e.intent # intent)

\* a classifier that keeps the table in most-recently-matched order
ClassifyCall_Reordering ==
  /\ pc = "idle"
  /\ \E user_text \in Texts :
       /\ call' = [op |-> "classify_intent", user_text |-> user_text]
       /\ ret' = classify_intent(user_text)
       /\ intent_patterns' = MoveToFront(intent_patterns, classify_intent(user_text).value)
  /\ pc' = "done"
  /\ UNCHANGED <<enhanced_queries, priority_domains, disallowed_patterns,
                 backend_log, remembered, inflight>>

\* a caller invokes floatchat_minimal.classify_intent(user_text)
ClassifyCall ==
  /\ pc = "idle"
  /\ \E user_text \in Texts :
       /\ call' = [op |-> "classify_intent", user_text |-> user_text]
       /\ ret' = classify_intent(user_text)
  /\ pc' = "done"
  /\ UNCHANGED <<tables, backend_log, remembered, inflight>>

\* a caller invokes floatchat_minimal.enhance_query(user_text, intent)
EnhanceCall ==
  /\ pc = "idle"
  /\ \E user_text \in Texts, intent \in IntentValues :
       /\ call' = [op |-> "enhance_query", user_text |-> user_text, intent |-> intent]
       /\ ret' = enhance_query(user_text, intent)
  /\ pc' = "done"
  /\ UNCHANGED <<tables, backend_log, remembered, inflight>>

\* the observer notes one classify_intent call and what it returned, to compare
\* it with a later call on the same text
Remember ==
  /\ pc = "done"
  /\ call.op = "classify_intent"
  /\ remembered = <<>>
  /\ call.user_text \in TextsOf(1)
  /\ remembered' = <<[user_text |-> call.user_text, ret |-> ret]>>
  /\ UNCHANGED <<tables, pc, call, ret, backend_log, inflight>>

\* the caller takes the result; the process is ready for the next call
Return ==
  /\ pc = "done"
  /\ pc' = "idle"
  /\ call' = NoCall
  /\ ret' = NoRet
  /\ backend_log' = <<>>
  /\ UNCHANGED <<tables, remembered, inflight>>

\* a client takes a user pattern from the answer of GET /intents and has its
\* text classified
ClassifyAdvertised ==
  /\ pc = "idle"
  /\ \E x \in 1..Len(intents_supported) :
       \E p \in 1..Len(intents_supported[x].user_patterns) :
         LET user_text == Chars(intents_supported[x].user_patterns[p])
         IN /\ call' = [op |-> "classify_advertised",
                        name |-> intents_supported[x].name, user_text |-> user_text]
            /\ ret' = classify_intent(user_text)
  /\ pc' = "done"
  /\ UNCHANGED <<tables, backend_log, remembered, inflight>>

NextClassify == ClassifyCall \/ EnhanceCall \/ ClassifyAdvertised \/ Remember \/ Return

SpecClassify == Init /\ [][NextClassify]_vars

\* a client posts a search request to the service of api.py
PostSearch ==
  /\ pc = "idle"
  /\ \E request \in SearchRequests :
       \E answer \in BackendAnswers(BuildParams(request.query, request.site_filter,
                                                request.time_range, request.top_k).num) :
         LET response == search(request, answer)
         IN /\ call' = [op |-> "search", request |-> request]
            /\ ret' = response.ret
            /\ backend_log' = response.log
  /\ pc' = "done"
  /\ UNCHANGED <<tables, remembered, inflight>>

\* a client posts a search request to the service of api_adk.py
PostSearchADK ==
  /\ pc = "idle"
  /\ \E request \in SearchRequests :
       LET response == search_endpoint(request)
       IN /\ call' = [op |-> "search_endpoint", request |-> request]
          /\ ret' = response.ret
          /\ backend_log' = response.log
  /\ pc' = "done"
  /\ UNCHANGED <<tables, remembered, inflight>>

\* a client posts a chat request to the service of api_adk.py; the handler
\* makes no backend request
PostChatADK ==
  /\ pc = "idle"
  /\ \E query \in Texts :
       LET response == chat_endpoint(query)
       IN /\ call' = [op |-> "chat_endpoint", query |-> query]
          /\ ret' = IF response.raised
                    THEN [status |-> response.status, error |-> response.error]
                    ELSE [status    |-> 200,
                          response  |-> response.value.response,
                          intent    |-> response.value.intent,
                          sources   |-> response.value.sources,
                          timestamp |-> response.value.timestamp]
  /\ backend_log' = <<>>
  /\ pc' = "done"
  /\ UNCHANGED <<tables, remembered, inflight>>

NextSearch == PostSearch \/ PostSearchADK \/ PostChatADK \/ Return

SpecSearch == Init /\ [][NextSearch]_vars

\* a caller hands a list of results to the ranker
SortCall ==
  /\ pc = "idle"
  /\ \E n \in 0..MaxResults :
       \E ranks \in DistinctRanks(n), sd \in [1..n -> ResultSources \X ResultDates] :
         LET results == ResultList(ranks, sd)
         IN /\ call' = [op |-> "_sort_by_priority", results |-> results]
            /\ ret' = [raised |-> FALSE, value |-> _sort_by_priority(results)]
  /\ pc' = "done"
  /\ UNCHANGED <<tables, backend_log, remembered, inflight>>

NextRank == SortCall \/ Return

\* a caller invokes WebSearchTool(api_key).search(query, site_filter,
\* time_range="year", top_k=top_k), as the handlers of api.py do
ToolSearchCall ==
  /\ pc = "idle"
  /\ \E top_k \in 1..(MaxToolHits + 1), answer \in ToolAnswers,
        site_filter \in ToolSiteFilters :
       LET r == WebSearchTool_search(Chars("argo data"), site_filter, "year", top_k, answer)
       IN /\ call' = [op |-> "WebSearchTool.search", query |-> Chars("argo data"),
                      site_filter |-> site_filter, time_range |-> "year",
                      top_k |-> top_k]
          /\ ret' = [raised |-> r.raised # "", results |-> r.results]
          /\ backend_log' = r.log
  /\ pc' = "done"
  /\ UNCHANGED <<tables, remembered, inflight>>

NextTool == ToolSearchCall \/ Return

SpecTool == Init /\ [][NextTool]_vars

SpecRank == Init /\ [][NextRank]_vars

\* a classify step that keeps the shared table in most-recently-matched order
StepClassify_Reordering(r) ==
  /\ inflight[r].pc = "new"
  /\ \E user_text \in ConcurrentTexts :
       /\ inflight' = [inflight EXCEPT ![r] =
                         [pc |-> "classified", user_text |-> user_text,
                          intent |-> classify_intent(user_text).value]]
       /\ intent_patterns' = MoveToFront(intent_patterns, classify_intent(user_text).value)
  /\ UNCHANGED <<enhanced_queries, priority_domains, disallowed_patterns,
                 pc, call, ret, backend_log, remembered>>

\* request r, a chat request, arrives and takes its first step:
\* floatchat_minimal.classify_intent(request.query)
StepClassify(r) ==
  /\ inflight[r].pc = "new"
  /\ \E user_text \in ConcurrentTexts :
       inflight' = [inflight EXCEPT ![r] =
                      [pc |-> "classified", user_text |-> user_text,
                       intent |-> classify_intent(user_text).value]]
  /\ UNCHANGED <<tables, pc, call, ret, backend_log, remembered>>

\* request r takes its second step:
\* floatchat_minimal.enhance_query(request.query, intent)
StepEnhance(r) ==
  /\ inflight[r].pc = "classified"
  /\ inflight' = [inflight EXCEPT ![r] =
                    [pc |-> "done", op |-> "chat",
                     user_text |-> inflight[r].user_text,
                     intent |-> inflight[r].intent,
                     enhanced |-> enhance_query(inflight[r].user_text,
                                                inflight[r].intent).value]]
  /\ UNCHANGED <<tables, pc, call, ret, backend_log, remembered>>

\* request r, a search request, arrives and is served by WebSearchTool.search
StepSearch(r) ==
  /\ inflight[r].pc = "new"
  /\ \E answer \in ConcurrentAnswers :
       inflight' = [inflight EXCEPT ![r] =
                      [pc |-> "done", op |-> "search", answer |-> answer,
                       results |-> WebSearchTool_search(
                                     ConcurrentSearch.query, ConcurrentSearch.site_filter,
                                     ConcurrentSearch.time_range, ConcurrentSearch.top_k,
                                     answer).results]]
  /\ UNCHANGED <<tables, pc, call, ret, backend_log, remembered>>

\* the response of request r is sent; its slot is free for the next request
Respond(r) ==
  /\ inflight[r].pc = "done"
  /\ inflight' = [inflight EXCEPT ![r] = NoRequest]
  /\ UNCHANGED <<tables, pc, call, ret, backend_log, remembered>>

NextConcurrent ==
  \E r \in 1..MaxRequests :
    StepClassify(r) \/ StepEnhance(r) \/ StepSearch(r) \/ Respond(r)

SpecConcurrent == Init /\ [][NextConcurrent]_vars

Next == NextClassify \/ NextSearch \/ NextRank \/ NextConcurrent \/ NextTool

Spec == Init /\ [][Next]_vars

-----------------------------------------------------------------------------
(* Properties of the classifier and the enhancer, checked under SpecClassify *)

FourIntents ==
  {"program_overview", "indian_ocean_status", "find_data_access", "nearest_floats_concept"}

Classified == pc = "done" /\ call.op = "classify_intent"
Enhanced   == pc = "done" /\ call.op = "enhance_query"

\* some pattern of the table entry occurs in the lower-cased text
MatchesIntent(entry, text) ==
  \E j \in 1..Len(entry.patterns) : contains(lower(text), Chars(entry.patterns[j]))

\* C1: every classify_intent call returns, without raising, one of the four
\* declared intents, and a call on a text that was classified before, whatever
\* calls were made in between, returns what the earlier call returned.
C1_ClassifierPureTotal ==
  Classified =>
    /\ ~ret.raised
    /\ ret.value \in FourIntents
    /\ \A k \in 1..Len(remembered) :
         remembered[k].user_text = call.user_text => remembered[k].ret = ret

\* a second call on "GDAC", made after the observed one
C1_Witness ==
  /\ Classified
  /\ remembered # <<>>
  /\ remembered[1].user_text = call.user_text
  /\ call.user_text = Fragments[3]
  /\ ret.value = "find_data_access"

\* C2 as stated: for all intents A declared before B, a text matching a pattern
\* of A and a pattern of B is classified as A.
C2_PatternPriorityAsStated ==
  Classified =>
    \A a, b \in 1..Len(intent_patterns) :
      (a < b /\ MatchesIntent(intent_patterns[a], call.user_text)
             /\ MatchesIntent(intent_patterns[b], call.user_text))
        => ret.value = intent_patterns[a].intent

\* C2 amended: a text matching a pattern of A and a pattern of a later declared
\* B, and no pattern of an intent declared before A, is classified as A: the
\* result is the first intent in declaration order with a matching pattern.
C2_FirstMatchWins ==
  Classified =>
    \A a \in 1..Len(intent_patterns) :
      (/\ MatchesIntent(intent_patterns[a], call.user_text)
       /\ \A z \in 1..(a - 1) : ~MatchesIntent(intent_patterns[z], call.user_text))
        => ret.value = intent_patterns[a].intent

\* "Bay of Bengal floats near" matches indian_ocean_status and the later
\* nearest_floats_concept, and is classified as indian_ocean_status
C2_Witness ==
  /\ Classified
  /\ call.user_text = Fragments[2]
  /\ MatchesIntent(intent_patterns[2], call.user_text)
  /\ MatchesIntent(intent_patterns[4], call.user_text)
  /\ ret.value = "indian_ocean_status"

\* C3: the empty string, and every text in which no pattern of any intent
\* occurs, is classified as program_overview, without raising.
C3_DefaultFallback ==
  Classified =>
    ((call.user_text = EmptyStr
        \/ \A a \in 1..Len(intent_patterns) :
              ~MatchesIntent(intent_patterns[a], call.user_text))
      => (~ret.raised /\ ret.value = "program_overview"))

\* "zzz_no_match_zzz" falls through every pattern
C3_Witness ==
  /\ Classified
  /\ call.user_text = Fragments[5]
  /\ \A a \in 1..Len(intent_patterns) : ~MatchesIntent(intent_patterns[a], call.user_text)
  /\ ret.value = "program_overview"

\* the hint of the enhancement table for an intent
HintOf(intent) ==
  Chars(enhanced_queries[CHOOSE i \in 1..Len(enhanced_queries) :
                           enhanced_queries[i].intent = intent].base_query)

\* C4: enhance_query(T, i) never raises and returns T, one space, and the hint
\* of i when i is a declared intent, the program_overview hint otherwise; the
\* result is non-empty and starts with T; the enhancement table holds exactly
\* one entry for every declared intent.
C4_EnhancerTotal ==
  /\ \A i \in FourIntents :
       Cardinality({k \in 1..Len(enhanced_queries) : enhanced_queries[k].intent = i}) = 1
  /\ Enhanced =>
       /\ ~ret.raised
       /\ ret.value = call.user_text \o <<" ">>
                        \o HintOf(IF call.intent \in FourIntents
                                  THEN call.intent ELSE "program_overview")
       /\ Len(ret.value) > 0
       /\ startswith(ret.value, call.user_text)

\* an unrecognised intent gets the program_overview hint
C4_Witness ==
  /\ Enhanced
  /\ call.intent = "unknown_intent"
  /\ call.user_text = Fragments[1]
  /\ ~ret.raised
  /\ ret.value = Fragments[1] \o <<" ">> \o HintOf("program_overview")

\* str.upper() of one character, for the ASCII letters
UpperCharAscii(c) ==
  IF \E i \in 1..Len(LowerCase) : LowerCase[i] = c
  THEN UpperCase[CHOOSE i \in 1..Len(LowerCase) : LowerCase[i] = c]
  ELSE c

\* str.upper() of one character: the upper-case form of the dotless i is I
UpperChar(c) == IF c = DotlessI THEN "I" ELSE UpperCharAscii(c)

\* the text with letters changed to upper case by Up and to lower case: all to
\* upper case, all to lower case, and alternately the one and the other
CaseVariants(text, Up(_)) ==
  {[i \in 1..Len(text) |-> Up(text[i])],
   [i \in 1..Len(text) |-> LowerChar(text[i])],
   [i \in 1..Len(text) |-> IF i % 2 = 1 THEN Up(text[i]) ELSE LowerChar(text[i])],
   [i \in 1..Len(text) |-> IF i % 2 = 0 THEN Up(text[i]) ELSE text[i]]}

\* C20 as stated: the intent of a text is the intent of the text with any of
\* its letters changed to upper or lower case.
C20_CaseInsensitiveAnyLetter ==
  Classified =>
    \A variant \in CaseVariants(call.user_text, UpperChar) :
      classify_intent(variant).value = ret.value

\* C20 amended: the intent of a text is the intent of the text with any of its
\* ASCII letters changed to upper or lower case.
C20_CaseInsensitiveAscii ==
  Classified =>
    \A variant \in CaseVariants(call.user_text, UpperCharAscii) :
      classify_intent(variant).value = ret.value

\* a text in upper case that matches a pattern only once it is lower-cased
C20_Witness ==
  /\ Classified
  /\ call.user_text = Chars("GDAC") \o Chars(" map")
  /\ lower(call.user_text) # call.user_text
  /\ ret.value = "find_data_access"

-----------------------------------------------------------------------------
(* Properties of the ranker, checked under SpecRank *)

Sorted == pc = "done" /\ call.op = "_sort_by_priority"

\* the domain is an entry of the priority list
Listed(domain) == \E i \in 1..Len(priority_domains) : Chars(priority_domains[i]) = domain

\* the 0-based position of a listed domain in the priority list
ListIndex(domain) ==
  (CHOOSE i \in 1..Len(priority_domains) : Chars(priority_domains[i]) = domain) - 1

SourcesOf(results) == [i \in 1..Len(results) |-> results[i].source]

\* C6: in the ranker's output every result of a listed domain precedes every
\* result of a domain with a larger priority index and every result of an
\* unlisted domain, whatever the dates and ranks; [unknown.example,
\* argo.ucsd.edu, incois.gov.in] comes out as [incois.gov.in, argo.ucsd.edu,
\* unknown.example].
C6_PriorityOrdering ==
  Sorted =>
    /\ \A i, j \in 1..Len(ret.value) :
         (/\ Listed(ret.value[i].source)
          /\ \/ ~Listed(ret.value[j].source)
             \/ ListIndex(ret.value[i].source) < ListIndex(ret.value[j].source))
           => i < j
    /\ SourcesOf(call.results)
         = <<Chars("unknown.example"), Chars("argo.ucsd.edu"), Chars("incois.gov.in")>>
       => SourcesOf(ret.value)
            = <<Chars("incois.gov.in"), Chars("argo.ucsd.edu"), Chars("unknown.example")>>

\* the example, with the unlisted result ranked first by the backend and dated 2025
C6_Witness ==
  /\ Sorted
  /\ SourcesOf(call.results)
       = <<Chars("unknown.example"), Chars("argo.ucsd.edu"), Chars("incois.gov.in")>>
  /\ call.results[1].published = Chars("2025-03-01")
  /\ call.results[2].published = None /\ call.results[2].updated = None
  /\ SourcesOf(ret.value)
       = <<Chars("incois.gov.in"), Chars("argo.ucsd.edu"), Chars("unknown.example")>>

\* the years in which a request may run: the year the code was written for
\* and the year after
ClockYears == {2025, 2026}

DigitValue(c) == CHOOSE n \in 0..9 : <<"0", "1", "2", "3", "4", "5", "6", "7", "8", "9">>[n + 1] = c

\* the year of a date written year first, as "2025-03-01"
YearOf(date_str) ==
  1000 * DigitValue(date_str[1]) + 100 * DigitValue(date_str[2])
    + 10 * DigitValue(date_str[3]) + DigitValue(date_str[4])

Undated(result) == ~Truthy(result.published) /\ ~Truthy(result.updated)

DatedIn(result, year) ==
  /\ ~Undated(result)
  /\ YearOf(IF Truthy(result.published) THEN result.published ELSE result.updated) = year

\* C7: whatever the current year is, of two results with the same priority
\* index the one dated in the current year precedes the one with no date.
C7_RecencyTieBreak ==
  Sorted =>
    \A year \in ClockYears :
      \A i, j \in 1..Len(ret.value) :
        (/\ Listed(ret.value[i].source) = Listed(ret.value[j].source)
         /\ Listed(ret.value[i].source)
              => ListIndex(ret.value[i].source) = ListIndex(ret.value[j].source)
         /\ DatedIn(ret.value[i], year)
         /\ Undated(ret.value[j]))
          => i < j

\* the number of positions of the list that hold the record
Occurrences(results, record) == Cardinality({k \in 1..Len(results) : results[k] = record})

\* C11: the ranker only reorders: its output is a permutation of its input
\* (same length, every record as often as in the input, none added), and a
\* record of the output is a record of the input with every field unchanged.
C11_RankerOnlyReorders ==
  Sorted =>
    /\ Len(ret.value) = Len(call.results)
    /\ \A i \in 1..Len(call.results) :
         Occurrences(ret.value, call.results[i]) = Occurrences(call.results, call.results[i])
    /\ \A i \in 1..Len(ret.value) :
         \E k \in 1..Len(call.results) :
           /\ ret.value[i].rank = call.results[k].rank
           /\ ret.value[i].title = call.results[k].title
           /\ ret.value[i].url = call.results[k].url
           /\ ret.value[i].snippet = call.results[k].snippet
           /\ ret.value[i].published = call.results[k].published
           /\ ret.value[i].updated = call.results[k].updated
           /\ ret.value[i].source = call.results[k].source

\* three results that the ranker puts in the reverse of their order
C11_Witness ==
  /\ Sorted
  /\ Len(call.results) = 3
  /\ \A i \in 1..3 : ret.value[i] = call.results[4 - i]
  /\ ret.value[1] # ret.value[3]

\* the recency bucket of a result, by the rule of the code
Bucket(result) ==
  IF Undated(result) THEN 0
  ELSE IF DatedIn(result, 2024) \/ DatedIn(result, 2025) THEN -1
  ELSE IF DatedIn(result, 2023) THEN 0
  ELSE 1

\* the priority index of a result: the position of its source in the priority
\* list, or the length of the list
IndexOf(result) ==
  IF Listed(result.source) THEN ListIndex(result.source) ELSE Len(priority_domains)

\* (index, bucket, rank) of a precedes (index, bucket, rank) of b
KeyPrecedes(a, b) ==
  \/ IndexOf(a) < IndexOf(b)
  \/ IndexOf(a) = IndexOf(b) /\ Bucket(a) < Bucket(b)
  \/ IndexOf(a) = IndexOf(b) /\ Bucket(a) = Bucket(b) /\ a.rank < b.rank

\* the list with the records at positions i and j exchanged
Swapped(results, i, j) == [results EXCEPT ![i] = results[j], ![j] = results[i]]

\* C12: the output of the ranker ascends strictly by (priority index, recency
\* bucket, original rank); among results of equal index and bucket the smaller
\* rank comes first; and the same results handed over in another order give
\* the same output.
C12_DeterministicTotalOrder ==
  Sorted =>
    /\ \A i, j \in 1..Len(ret.value) :
         i < j => KeyPrecedes(ret.value[i], ret.value[j])
    /\ \A i, j \in 1..Len(ret.value) :
         (/\ IndexOf(ret.value[i]) = IndexOf(ret.value[j])
          /\ Bucket(ret.value[i]) = Bucket(ret.value[j])
          /\ ret.value[i].rank < ret.value[j].rank) => i < j
    /\ Len(call.results) <= MaxShuffled =>
         \A i, j \in 1..Len(call.results) :
           _sort_by_priority(Swapped(call.results, i, j)) = ret.value

\* two undated results of one domain handed over with the larger rank first
C12_Witness ==
  /\ Sorted
  /\ Len(call.results) = 2
  /\ call.results[1].source = call.results[2].source
  /\ Undated(call.results[1]) /\ Undated(call.results[2])
  /\ call.results[1].rank > call.results[2].rank
  /\ ret.value = <<call.results[2], call.results[1]>>

-----------------------------------------------------------------------------
(* Properties of requests served side by side, checked under SpecConcurrent *)

\* what classify_intent returns for the text when it runs alone, on the
\* tables as they are constructed
AloneIntent(user_text) == ScanIntents(InitialIntentPatterns, 1, lower(user_text))

\* what enhance_query returns for the text and the intent when it runs alone
AloneEnhanced(user_text, intent) ==
  user_text \o Chars(" ")
    \o dict_get(InitialEnhancedQueries, intent,
                dict_get(InitialEnhancedQueries, "program_overview", None))

\* C18: classify_intent, enhance_query and search never modify the pattern
\* table, the enhancement table, the priority list or the deny-list, and
\* however the steps of the requests interleave, every request has the
\* results it has when it runs alone (for a search, on the lists as they
\* are constructed, which the first four lines say they still are).
C18_RequestIndependence ==
  /\ intent_patterns = InitialIntentPatterns
  /\ enhanced_queries = InitialEnhancedQueries
  /\ priority_domains = InitialPriorityDomains
  /\ disallowed_patterns = InitialDisallowedPatterns
  /\ \A r \in 1..MaxRequests :
       /\ inflight[r].pc = "classified" =>
            inflight[r].intent = AloneIntent(inflight[r].user_text)
       /\ (inflight[r].pc = "done" /\ inflight[r].op = "chat") =>
            /\ inflight[r].intent = AloneIntent(inflight[r].user_text)
            /\ inflight[r].enhanced
                 = AloneEnhanced(inflight[r].user_text, AloneIntent(inflight[r].user_text))
       /\ (inflight[r].pc = "done" /\ inflight[r].op = "search") =>
            inflight[r].results
              = WebSearchTool_search(ConcurrentSearch.query, ConcurrentSearch.site_filter,
                                     ConcurrentSearch.time_range, ConcurrentSearch.top_k,
                                     inflight[r].answer).results

\* one request has classified a text that matches two intents and waits to
\* enhance, while another has classified and enhanced "argo map"
C18_Witness ==
  \E r1, r2 \in 1..MaxRequests :
    /\ r1 # r2
    /\ inflight[r1].pc = "classified"
    /\ inflight[r1].user_text = Chars("Bay of Bengal floats near")
    /\ inflight[r1].intent = "indian_ocean_status"
    /\ inflight[r2].pc = "done" /\ inflight[r2].op = "chat"
    /\ inflight[r2].user_text = Chars("argo") \o Chars(" map")
    /\ inflight[r2].intent = "nearest_floats_concept"

-----------------------------------------------------------------------------
(* Properties of the search, checked under SpecSearch *)

Searched    == pc = "done" /\ call.op = "search"
SearchedADK == pc = "done" /\ call.op = "search_endpoint"

\* the backend was asked, and this is what it answered
Asked  == backend_log # <<>>
Answer == backend_log[1].answer

\* some deny-list pattern occurs in the string
HasDeniedPattern(s) ==
  \E k \in 1..Len(disallowed_patterns) : contains(s, Chars(disallowed_patterns[k]))

\* C5 as stated: no result of the output has a url in which a deny-list
\* pattern occurs.
C5_DeniedUrlNeverReturned ==
  (Searched /\ ret.status = 200) =>
    \A i \in 1..Len(ret.results) : ~HasDeniedPattern(ret.results[i].url)

\* C5 amended: a hit whose source domain (the lower-cased host of its url,
\* without a leading www.) contains a deny-list pattern is never in the output,
\* whatever the other hits, the site filter, the time range and the cap are.
C5_DeniedDomainNeverReturned ==
  (Searched /\ ret.status = 200) =>
    /\ \A i \in 1..Len(ret.results) :
         ~HasDeniedPattern(_extract_domain(ret.results[i].url))
    /\ (Asked /\ Answer.kind = "ok") =>
         \A j \in 1..Len(Answer.items) :
           HasDeniedPattern(_extract_domain(Answer.items[j].link))
             => \A i \in 1..Len(ret.results) : ret.results[i].rank # j

\* the backend returns the facebook.com hit between two allowed hits, for a
\* request with a site filter; the two others are returned
C5_Witness ==
  /\ Searched /\ ret.status = 200 /\ Asked /\ Answer.kind = "ok"
  /\ call.request.site_filter = <<Chars("argo.ucsd.edu"), Chars("euro-argo.eu")>>
  /\ Len(Answer.items) = 3
  /\ Answer.items[2].link = Chars("https://www.Facebook.com/argo")
  /\ Len(ret.results) = 2
  /\ \A i \in 1..2 : ret.results[i].rank # 2

\* the positions of the backend's answer whose hit has an allowed source domain
AllowedHits(items) ==
  {j \in 1..Len(items) : ~HasDeniedPattern(_extract_domain(items[j].link))}

\* C13: when the backend call succeeds, no hit whose source domain is free of
\* deny-list patterns is dropped by filtering: the output holds as many results
\* as there are such hits, up to the cap, and all of them when the cap allows.
C13_DenyListOnlyFilter ==
  (Searched /\ Asked /\ Answer.kind = "ok") =>
    LET allowed == AllowedHits(Answer.items)
    IN /\ ret.status = 200
       /\ Len(ret.results)
            = IF Cardinality(allowed) <= call.request.top_k
              THEN Cardinality(allowed)
              ELSE call.request.top_k
       /\ Cardinality(allowed) <= call.request.top_k =>
            \A j \in allowed :
              \E i \in 1..Len(ret.results) :
                /\ ret.results[i].rank = j
                /\ ret.results[i].url = Answer.items[j].link

\* hits of a listed domain, of another listed domain and of an unlisted one,
\* with a cap of three: the three are returned
C13_Witness ==
  /\ Searched /\ Asked /\ Answer.kind = "ok"
  /\ call.request.top_k = 3
  /\ Len(Answer.items) = 3
  /\ Answer.items[1].link = Chars("https://argo.ucsd.edu/")
  /\ Answer.items[2].link = Chars("https://incois.gov.in/argo")
  /\ Answer.items[3].link = Chars("https://unknown.example/facebook.com")
  /\ Len(ret.results) = 3
  /\ \E i \in 1..3 : ret.results[i].source = Chars("unknown.example")

\* the date of a hit as the pipeline reads it from the hit's page map
HitDate(hit) == IF "pagemap" \in DOMAIN hit THEN _extract_date(hit.pagemap) ELSE None

\* the sort key of the hit at position j of the sequence of hits: the result
\* the pipeline builds for it
KeyRecord(hits, j) ==
  [source    |-> _extract_domain(hits[j].link),
   published |-> HitDate(hits[j]),
   updated   |-> None,
   rank      |-> j]

\* the hit at position j of the sequence is in the output
Kept(hits, j) ==
  \E i \in 1..Len(ret.results) :
    ret.results[i].rank = j /\ ret.results[i].url = hits[j].link

\* every allowed hit of the sequence that is left out of the output has a sort
\* key that no kept result exceeds, and no denied hit is in the output
CapAfterRanking(hits) ==
  /\ \A j \in AllowedHits(hits) :
       ~Kept(hits, j) =>
         \A i \in 1..Len(ret.results) :
           ~KeyPrecedes(KeyRecord(hits, j), ret.results[i])
  /\ \A j \in 1..Len(hits) : j \notin AllowedHits(hits) => ~Kept(hits, j)

\* C14: the cap is applied only to the filtered and ranked list: of the hits
\* the backend has for the query, every allowed one that is left out of the
\* output has a sort key no smaller than that of every result kept, so that
\* neither a denied hit nor a hit of lower priority takes the slot of an
\* allowed hit of higher priority.
C14_FilterRankTruncate ==
  (Searched /\ Asked /\ Answer.kind = "ok" /\ ret.status = 200)
    => CapAfterRanking(Answer.held)

\* C14 over the hits the backend returned, rather than those it has
C14_OverReturnedHits ==
  (Searched /\ Asked /\ Answer.kind = "ok" /\ ret.status = 200)
    => CapAfterRanking(Answer.items)

ChattedADK == pc = "done" /\ call.op = "chat_endpoint"

\* the query the enhancer produces for the text of the chat request
EnhancedQueryOf(query) == enhance_query(query, classify_intent(query).value).value

\* C15: every chat request runs classify, enhance, exactly one backend call
\* made with the enhanced query, rank and compose: when the response is sent,
\* one backend request has been made for it, and its query is the enhanced one.
C15_ChatPipelineOrder ==
  (ChattedADK /\ ret.status = 200) =>
    /\ Len(backend_log) = 1
    /\ backend_log[1].params.q = EnhancedQueryOf(call.query)

\* the canned texts of the chat handler that state facts about the programme
FactualTexts ==
  {response_text(intent) : intent \in {"program_overview", "indian_ocean_status",
                                        "find_data_access", "nearest_floats_concept"}}

\* the ranked results a chat response was built from: those of the backend
\* call made for the request, none when no call was made or the call failed
RankedResults ==
  IF Len(backend_log) = 0 THEN <<>>
  ELSE IF backend_log[1].answer.kind # "ok" THEN <<>>
  ELSE _sort_by_priority(ParseItems(backend_log[1].answer.items, 0, <<>>).results)

\* C16: when the ranked result set is empty the chat response is well formed
\* and holds guidance only: no factual text and no source, since nothing in it
\* could be traced to a ranked result.
C16_EmptyRankedSet ==
  (ChattedADK /\ RankedResults = <<>>) =>
    /\ ret.status = 200
    /\ ret.response \notin FactualTexts
    /\ Len(ret.sources) = 0

\* the domains of the results, each once, in the order of first occurrence
RECURSIVE FirstSeen(_, _)
FirstSeen(results, seen) ==
  IF results = <<>> THEN seen
  ELSE IF \E k \in 1..Len(seen) : seen[k] = Head(results).source
       THEN FirstSeen(Tail(results), seen)
       ELSE FirstSeen(Tail(results), Append(seen, Head(results).source))

\* C17: the sources of a chat response are the distinct source domains of the
\* ranked results of the request, each once, in first-seen order, and no other.
C17_DistinctSourceList ==
  (ChattedADK /\ ret.status = 200) =>
    /\ Len(ret.sources) = Len(FirstSeen(RankedResults, <<>>))
    /\ \A i \in 1..Len(ret.sources) :
         Chars(ret.sources[i]) = FirstSeen(RankedResults, <<>>)[i]

\* C8: for every cap in 1..10 the direct-search entry point returns at most
\* cap results.
C8_CapEnforced ==
  ((Searched \/ SearchedADK) /\ call.request.top_k \in 1..10 /\ ret.status = 200)
    => Len(ret.results) <= call.request.top_k

\* three allowed hits and a cap of 2
C8_Witness ==
  /\ Searched /\ ret.status = 200 /\ Asked /\ Answer.kind = "ok"
  /\ call.request.top_k = 2
  /\ Len(Answer.items) = 3
  /\ \A j \in 1..3 : ~HasDeniedPattern(_extract_domain(Answer.items[j].link))
  /\ Len(ret.results) = 2

\* the request fails the validation of its cap or of its time range
InvalidRequest(request) ==
  \/ request.top_k < 1
  \/ request.top_k > 10
  \/ request.time_range \notin {"any", "week", "month", "year"}

\* C9: a direct-search request with a cap outside 1..10 or an unknown time
\* range is rejected as a request-validation failure (a 4xx response, not the
\* generic 500), and no backend call is made for it.
C9_ValidationBoundary ==
  ((Searched \/ SearchedADK) /\ InvalidRequest(call.request))
    => (ret.status \in {400, 422} /\ Len(backend_log) = 0)

\* C9 for the handler of api.py alone, which validates
C9_ApiPyValidates ==
  (Searched /\ InvalidRequest(call.request))
    => (ret.status = 400 /\ Len(backend_log) = 0)

BackendFailures ==
  {"ConnectionError", "Timeout", "HTTPError", "JSONDecodeError", "not_an_object"}

\* C10: when the backend call fails (connection error, timeout, error status,
\* undecodable or malformed payload) search returns an empty result sequence
\* and raises nothing: its caller answers 200 with no results.
C10_BackendFailureDegrades ==
  (Searched /\ Asked /\ Answer.kind \in BackendFailures)
    => (ret.status = 200 /\ ret.results = <<>>)

\* C19: an invocation of search makes at most one backend request; when that
\* request fails no second one follows and the invocation ends with no result.
C19_NoRetries ==
  Searched =>
    /\ Len(backend_log) <= 1
    /\ (ret.status = 200 \/ ret.status = 500) => Len(backend_log) = 1
    /\ (Asked /\ Answer.kind \in BackendFailures) =>
         (Len(backend_log) = 1 /\ Len(ret.results) = 0)

\* the one request timed out
C19_Witness ==
  /\ Searched /\ Asked
  /\ Answer.kind = "Timeout"
  /\ Len(backend_log) = 1
  /\ backend_log[1].params.num = call.request.top_k
  /\ Len(ret.results) = 0

\* a payload that is a JSON array, which the try block meets as an AttributeError
C10_Witness ==
  /\ Searched /\ Asked
  /\ Answer.kind = "not_an_object"
  /\ ret.status = 200
  /\ ret.results = <<>>

-----------------------------------------------------------------------------
(* Properties of the tool called directly, checked under SpecTool *)

ToolSearched == pc = "done" /\ call.op = "WebSearchTool.search"

\* the last position of s that holds the character c; 0 when there is none
LastIndexOf(s, c) ==
  IF \E i \in 1..Len(s) : s[i] = c
  THEN CHOOSE i \in 1..Len(s) : s[i] = c /\ \A k \in (i + 1)..Len(s) : s[k] # c
  ELSE 0

\* the host of a url: its network location without the user information that
\* precedes "@" and without the port that follows ":", in lower case
HostOf(url) ==
  LET location == netloc(url)
      at       == LastIndexOf(location, "@")
      hostport == SubSeq(location, at + 1, Len(location))
      colon    == FindAny(hostport, {":"})
  IN lower(IF colon = 0 THEN hostport ELSE SubSeq(hostport, 1, colon - 1))

\* the host without one leading www.
SourceOf(url) ==
  IF startswith(HostOf(url), Chars("www."))
  THEN SubSeq(HostOf(url), 5, Len(HostOf(url)))
  ELSE HostOf(url)

\* C21: the source of every result is the host of its url, in lower case and
\* without one leading www.; the deny-list check and the priority lookup use
\* this value: no result of a denied host is returned, and the results are in
\* the order of the priority indexes of their hosts.
C21_SourceIsHost ==
  ToolSearched =>
    /\ \A i \in 1..Len(ret.results) :
         /\ ret.results[i].source = SourceOf(ret.results[i].url)
         /\ ~HasDeniedPattern(SourceOf(ret.results[i].url))
    /\ \A i, j \in 1..Len(ret.results) :
         i < j =>
           IndexOf([source |-> SourceOf(ret.results[i].url)])
             <= IndexOf([source |-> SourceOf(ret.results[j].url)])

\* C22: each of the ten entries of the priority list is effective: a result
\* whose url has an entry of the list as its host, written in any case, has
\* the priority index of that entry, and precedes every result whose host is
\* no entry of the list.
C22_EveryEntryEffective ==
  ToolSearched =>
    \A i \in 1..Len(ret.results), d \in 1..Len(priority_domains) :
      lower(netloc(ret.results[i].url)) = Chars(priority_domains[d]) =>
        /\ priority_idx(ret.results[i].source) = d - 1
        /\ \A j \in 1..Len(ret.results) :
             (\A e \in 1..Len(priority_domains) :
                HostOf(ret.results[j].url) # Chars(priority_domains[e]))
               => i < j

\* the date string the ranker reads from a dated result
DateStrOf(result) ==
  IF Truthy(result.published) THEN result.published ELSE result.updated

\* the string is a date written year first: four digits, "-", two digits, "-",
\* two digits, and possibly a time after them
IsDate(date_str) ==
  /\ Len(date_str) >= 10
  /\ \A k \in {1, 2, 3, 4, 6, 7, 9, 10} : date_str[k] \in Digits
  /\ date_str[5] = "-"
  /\ date_str[8] = "-"

\* the result has no date, or a date string that is no date
NoUsableDate(result) == Undated(result) \/ ~IsDate(DateStrOf(result))

\* C23: a result with no date, or with a date string that cannot be read as a
\* date, has the recency bucket 0 or +1 and never -1, and, whatever the
\* current year is, is not placed ahead of a result of the same priority index
\* dated in the current year.
C23_NoDateNeverBest ==
  ToolSearched =>
    /\ \A i \in 1..Len(ret.results) :
         NoUsableDate(ret.results[i]) => recency_score(ret.results[i]) \in {0, 1}
    /\ \A year \in ClockYears :
         \A i, j \in 1..Len(ret.results) :
           (/\ NoUsableDate(ret.results[i])
            /\ ~NoUsableDate(ret.results[j])
            /\ YearOf(DateStrOf(ret.results[j])) = year
            /\ IndexOf(ret.results[i]) = IndexOf(ret.results[j]))
             => j < i

\* the hits the backend returned to the tool
ToolItems == backend_log[1].answer.items

\* C24: the rank of every result is the 1-based position of its hit in the
\* backend's response, hits dropped by the deny-list counted: it lies in
\* 1..(number of hits), the result is built from the hit at that position,
\* and no two results of an output have the same rank.
C24_OriginalRank ==
  ToolSearched =>
    /\ \A i \in 1..Len(ret.results) :
         /\ ret.results[i].rank \in 1..Len(ToolItems)
         /\ ret.results[i].url = ToolItems[ret.results[i].rank].link
         /\ ret.results[i].snippet = ToolItems[ret.results[i].rank].snippet
    /\ \A i, j \in 1..Len(ret.results) :
         i # j => ret.results[i].rank # ret.results[j].rank

\* the first of two hits is dropped by the deny-list: the only result has rank 2
C24_Witness ==
  /\ ToolSearched
  /\ Len(ToolItems) = 2
  /\ HasDeniedPattern(SourceOf(ToolItems[1].link))
  /\ Len(ret.results) = 1
  /\ ret.results[1].rank = 2

\* the metadata fields and, in the first entry of each, the date keys, in the
\* order in which the extractors are tried
ExtractorFields == <<"metatags", "article", "webpage", "newsarticle">>
ExtractorKeys   == <<"published_time", "modified_time", "date", "publishdate">>

\* the pairs <<f, k>> such that the first entry of field f of the page
\* metadata holds key k
DateCandidates(meta) ==
  {c \in (1..Len(ExtractorFields)) \X (1..Len(ExtractorKeys)) :
     /\ ExtractorFields[c[1]] \in DOMAIN meta
     /\ meta[ExtractorFields[c[1]]] # <<>>
     /\ ExtractorKeys[c[2]] \in DOMAIN meta[ExtractorFields[c[1]]][1]}

\* the value at the first candidate in the order of the extractors; none when
\* there is no candidate
FirstDateFound(meta) ==
  IF DateCandidates(meta) = {} THEN None
  ELSE LET c == CHOOSE x \in DateCandidates(meta) :
                  \A y \in DateCandidates(meta) :
                    x[1] < y[1] \/ (x[1] = y[1] /\ x[2] <= y[2])
       IN meta[ExtractorFields[c[1]]][1][ExtractorKeys[c[2]]]

\* the hit has no page metadata, or metadata with none of the date keys
NoDateIn(hit) == "pagemap" \notin DOMAIN hit \/ DateCandidates(hit.pagemap) = {}

\* C25: a result built from a hit with no page metadata, or with metadata
\* holding none of the date keys, has published and updated unset, and such a
\* hit of an allowed domain is in every non-empty output that the cap does
\* not cut; the published date of any other result is the first value found
\* when the fields metatags, article, webpage, newsarticle and, in the first
\* entry of each, the keys published_time, modified_time, date, publishdate
\* are tried in this order.
C25_BestEffortDate ==
  ToolSearched =>
    /\ \A i \in 1..Len(ret.results) :
         LET hit == ToolItems[ret.results[i].rank]
         IN /\ ret.results[i].updated = None
            /\ ret.results[i].published
                 = IF NoDateIn(hit) THEN None ELSE FirstDateFound(hit.pagemap)
    /\ (ret.results # <<>> /\ Len(ToolItems) <= call.top_k) =>
         \A j \in 1..Len(ToolItems) :
           (NoDateIn(ToolItems[j]) /\ ~HasDeniedPattern(SourceOf(ToolItems[j].link)))
             => \E i \in 1..Len(ret.results) :
                  /\ ret.results[i].rank = j
                  /\ ret.results[i].published = None

\* a hit without page metadata is returned without a date next to a hit whose
\* metatags hold both modified_time and published_time
C25_Witness ==
  /\ ToolSearched
  /\ \E i, j \in 1..Len(ret.results) :
       /\ ret.results[i].url = Chars("https://unknown.example/c")
       /\ ret.results[i].published = None
       /\ ret.results[j].url = Chars("https://www.ocean-ops.org/board")
       /\ ret.results[j].published = Chars("2023-01-01")

\* the hit is of an allowed domain and cannot be parsed: its title is not a
\* string, or the first entry of a metadata field that is read before any date
\* is found is not a mapping
Unparseable(hit) ==
  /\ ~HasDeniedPattern(SourceOf(hit.link))
  /\ \/ hit.title = None
     \/ /\ "pagemap" \in DOMAIN hit
        /\ \E f \in 1..Len(ExtractorFields) :
             /\ ExtractorFields[f] \in DOMAIN hit.pagemap
             /\ hit.pagemap[ExtractorFields[f]] # <<>>
             /\ "json" \in DOMAIN hit.pagemap[ExtractorFields[f]][1]
             /\ \A c \in DateCandidates(hit.pagemap) : c[1] > f

\* C26: a direct search returns no partial list: when a hit of the backend's
\* answer cannot be parsed, the invocation returns an empty result sequence,
\* whatever hits were parsed before it; otherwise it returns one result for
\* every hit of an allowed domain, up to the cap.
C26_AllOrNothing ==
  ToolSearched =>
    /\ ~ret.raised
    /\ IF \E j \in 1..Len(ToolItems) : Unparseable(ToolItems[j])
       THEN ret.results = <<>>
       ELSE LET allowed == {j \in 1..Len(ToolItems) :
                              ~HasDeniedPattern(SourceOf(ToolItems[j].link))}
            IN /\ Len(ret.results) = Min(call.top_k, Cardinality(allowed))
               /\ \A i \in 1..Len(ret.results) : ret.results[i].rank \in allowed
               /\ Cardinality(allowed) <= call.top_k =>
                    \A j \in allowed :
                      \E i \in 1..Len(ret.results) : ret.results[i].rank = j

\* a well-formed hit of a listed domain is followed by a hit whose metadata
\* entry is a number: nothing is returned
C26_Witness ==
  /\ ToolSearched
  /\ Len(ToolItems) = 2
  /\ ToolItems[1].link = Chars("https://argo.ucsd.edu/")
  /\ ~Unparseable(ToolItems[1])
  /\ ToolItems[2].link = Chars("https://doi.org/a")
  /\ Unparseable(ToolItems[2])
  /\ call.top_k = 2
  /\ ret.results = <<>>

\* the params of the request the tool sent to the backend
ToolParams == backend_log[1].params

\* one site: clause for every domain of a non-empty filter, in the filter's
\* order, with OR between them
RECURSIVE OrJoined(_)
OrJoined(filter) ==
  IF Len(filter) = 1 THEN Chars("site:") \o filter[1]
  ELSE OrJoined(SubSeq(filter, 1, Len(filter) - 1))
         \o Chars(" OR site:") \o filter[Len(filter)]

\* C27: the request carries the recency restriction d7 (7 days) for the time
\* range week, m1 (1 month) for month, y1 (1 year) for year, and no recency
\* restriction for any.
C27_TimeRangeMapping ==
  (Searched /\ Asked) =>
    LET params     == backend_log[1].params
        time_range == call.request.time_range
    IN /\ time_range = "week"  => ("dateRestrict" \in DOMAIN params /\ params.dateRestrict = "d7")
       /\ time_range = "month" => ("dateRestrict" \in DOMAIN params /\ params.dateRestrict = "m1")
       /\ time_range = "year"  => ("dateRestrict" \in DOMAIN params /\ params.dateRestrict = "y1")
       /\ time_range = "any"   => "dateRestrict" \notin DOMAIN params

\* a search over any time is sent without a restriction
C27_Witness ==
  /\ Searched /\ Asked
  /\ call.request.time_range = "any"
  /\ DOMAIN backend_log[1].params = {"q", "num", "safe"}

\* C28: with a non-empty site filter the query sent to the backend is the
\* base query followed by the site: clauses of the filter's domains, in the
\* filter's order and joined by OR, in parentheses; with an empty or absent
\* filter it is the base query unchanged.
C28_SiteFilterQuery ==
  ToolSearched =>
    IF call.site_filter = NoList \/ call.site_filter = <<>>
    THEN ToolParams.q = call.query
    ELSE ToolParams.q
           = call.query \o Chars(" (") \o OrJoined(call.site_filter) \o Chars(")")

\* the filter [argo.ucsd.edu, euro-argo.eu]
C28_Witness ==
  /\ ToolSearched
  /\ call.site_filter = <<Chars("argo.ucsd.edu"), Chars("euro-argo.eu")>>
  /\ ToolParams.q = Chars("argo data (site:argo.ucsd.edu OR site:euro-argo.eu)")

-----------------------------------------------------------------------------
(* Properties of the advertised patterns, checked under SpecClassify *)

ClassifiedAdvertised == pc = "done" /\ call.op = "classify_advertised"

\* C29: the text of every user pattern that GET /intents lists for an intent
\* is classified as that intent: no listed pattern is shadowed by a pattern of
\* an intent declared earlier.
C29_AdvertisedClassifyToTheirIntent ==
  ClassifiedAdvertised => (~ret.raised /\ ret.value = call.name)

-----------------------------------------------------------------------------
(* Properties of POST /search of api_adk.py, checked under SpecSearch *)

\* C30: a search request with a query, a cap and a time range in their
\* accepted ranges, posted to the service of api_adk.py, is answered with a
\* success payload that carries the request's query, a list of results and a
\* timestamp, not with an error response.
C30_AdkSearchSucceeds ==
  (/\ SearchedADK
   /\ Truthy(call.request.query)
   /\ call.request.top_k \in TopKMin..TopKMax
   /\ call.request.time_range \in TimeRanges) =>
    /\ ret.status = 200
    /\ ret.query = call.request.query
    /\ {"results", "timestamp"} \subseteq DOMAIN ret

====
